---- MODULE Spec2Model ----
(***************************************************************************)
(* zen-connect-api: the OAuth2/OIDC callback, the reconciliation of the    *)
(* verified claims with the users table, and the session cookie codec.     *)
(*                                                                         *)
(* Strings are sequences of one-character strings, so that trimming,       *)
(* lower-casing and JSON coercion are computed, not assumed.               *)
(*                                                                         *)
(* The source tree holds three generations of the callback's               *)
(* createOrUpdateUser; `build` says which one the binary was linked from:  *)
(*   "prov" unnamed/part_013:85-157  (Provisional/Active aggregate)        *)
(*   "repo" callback_handler.go:86-129 (flat aggregate, repository direct) *)
(*   "svc"  unnamed/part_013:245-261 + user_service_impl.go:22-53          *)
(*          (the one cmd/zen-connect/main.go wires)                        *)
(***************************************************************************)
EXTENDS Integers, Sequences, FiniteSets, TLC

VARIABLES
    build,      \* which createOrUpdateUser the binary holds
    users,      \* the rows of the PostgreSQL table users
    now,        \* the wall clock read by time.Now()
    pending,    \* state values handed out by /auth/login and not yet used
    pc,         \* per callback request: where the handler is
    query,      \* per callback request: the query parameters code/state/error
    claims,     \* per callback request: the verified ID-token claims
    mem,        \* per callback request: the aggregate the handler holds
    pre,        \* per callback request: the rows when reconciliation began
    after,      \* per callback request: the requests finished before it began
    log,        \* per callback request: the effects so far, in order
    out,        \* per callback request: the HTTP response
    cfg,        \* the CookieStore built by NewCookieStore
    jar,        \* the browser's cookie for this site (one per name)
    got,        \* the last session-store call: its input and its result
    srv,        \* the server process: its environment and how far main() got
    agg,        \* an aggregate instance held by a caller of the domain layer
    last,       \* the last call on that aggregate: operation, arguments, state before
    uow,        \* a unit of work, its database and its event bus
    reg         \* the registration use case: its repository and its calls in flight

vars == <<build, users, now, pending, pc, query, claims, mem, pre, after,
          log, out, cfg, jar, got, srv, agg, last, uow, reg>>

reconVars == <<build, users, pending, pc, query, claims, mem, pre, after, log, out>>
sessionVars == <<cfg, jar, got, srv>>
domainVars == <<agg, last, uow, reg>>

\* ------------------------------------------------------------------ bounds
MaxTime == 6

\* ------------------------------------------------------------------ strings
Empty == <<>>
NoTime == -1

Lower(c) ==
    CASE c = "A" -> "a"
      [] c = "B" -> "b"
      [] c = "X" -> "x"
      [] OTHER -> c

\* strings.ToLower
ToLower(s) == [i \in DOMAIN s |-> Lower(s[i])]

\* strings.TrimSpace
RECURSIVE TrimLeft(_)
TrimLeft(s) == IF s # <<>> /\ Head(s) = " " THEN TrimLeft(Tail(s)) ELSE s
RECURSIVE TrimRight(_)
TrimRight(s) ==
    IF s # <<>> /\ s[Len(s)] = " " THEN TrimRight(SubSeq(s, 1, Len(s) - 1)) ELSE s
TrimSpace(s) == TrimRight(TrimLeft(s))

Letters == {"a", "b", "x", "i", "o", "A", "B", "X"}
LocalChars == Letters \cup {"0", ".", "_", "+", "-"}
DomainChars == Letters \cup {"0", ".", "-"}

AllIn(s, from, to, set) == \A i \in from..to : s[i] \in set
HasDotDot(s, from, to) == \E i \in from..(to - 1) : s[i] = "." /\ s[i + 1] = "."

\* the regular expression ^[a-zA-Z0-9._+-]+@[a-zA-Z0-9.-]+\.[a-zA-Z]{2,}$
MatchesEmailRegex(s) ==
    \E at \in 2..Len(s) : \E dot \in (at + 2)..(Len(s) - 2) :
        /\ s[at] = "@"
        /\ s[dot] = "."
        /\ AllIn(s, 1, at - 1, LocalChars)
        /\ AllIn(s, at + 1, dot - 1, DomainChars)
        /\ AllIn(s, dot + 1, Len(s), Letters)

isValidEmail(s) ==
    /\ MatchesEmailRegex(s)
    /\ ~HasDotDot(s, 1, Len(s))
    /\ Cardinality({i \in DOMAIN s : s[i] = "@"}) = 1
    /\ LET at == CHOOSE i \in DOMAIN s : s[i] = "@"
       IN  /\ s[1] # "." /\ s[at - 1] # "."
           /\ s[at + 1] # "." /\ s[Len(s)] # "."
           /\ ~HasDotDot(s, at + 1, Len(s))

\* domain.NewEmail: [ok, value]
NewEmail(raw) ==
    IF TrimSpace(raw) = <<>> THEN [ok |-> FALSE, value |-> <<>>]
    ELSE LET normalizedEmail == ToLower(TrimSpace(raw))
         IN  IF ~isValidEmail(normalizedEmail)
             THEN [ok |-> FALSE, value |-> <<>>]
             ELSE [ok |-> TRUE, value |-> normalizedEmail]

\* ------------------------------------------------------------- aggregates
\* One record shape for the flat User (unnamed/part_007) and for the
\* ProvisionalUser / ActiveUser pair (unnamed/part_006); `kind` tells them
\* apart.  A ProvisionalUser has only id, email, createdAt and events: its
\* other fields are the zero values.
Aggregate(kind, id, sub, email, name, bio, image, verified, created, verifiedAt, updated, events) ==
    [kind |-> kind, id |-> id, auth0UserID |-> sub, email |-> email,
     displayName |-> name, bio |-> bio, profileImageURL |-> image,
     emailVerified |-> verified, createdAt |-> created,
     verifiedAt |-> verifiedAt, updatedAt |-> updated, events |-> events]

NoUser == Aggregate("none", Empty, Empty, Empty, Empty, Empty, Empty, FALSE,
                    NoTime, NoTime, NoTime, <<>>)

\* mutant: the new user is built without the provider's subject id
NewUser_Unlinked(id, auth0UserID, email, displayName, emailVerified, t) ==
    Aggregate("user", id, Empty, email, displayName, Empty, Empty,
              emailVerified, t, IF emailVerified THEN t ELSE NoTime, t,
              <<"UserRegistered">>)

\* mutant: a user created as verified gets no verification time
NewUser_VerifiedAtUnset(id, auth0UserID, email, displayName, emailVerified, t) ==
    Aggregate("user", id, auth0UserID, email, displayName, Empty, Empty,
              emailVerified, t, NoTime, t, <<"UserRegistered">>)

\* part_007:46 NewUser
NewUser(id, auth0UserID, email, displayName, emailVerified, t) ==
    Aggregate("user", id, auth0UserID, email, displayName, Empty, Empty,
              emailVerified, t, IF emailVerified THEN t ELSE NoTime, t,
              <<"UserRegistered">>)

\* part_007:86 (u *User) UpdateProfile
UpdateProfile(u, displayName, bio, profileImageURL, t) ==
    [u EXCEPT !.displayName = displayName, !.bio = bio,
              !.profileImageURL = profileImageURL, !.updatedAt = t,
              !.events = Append(@, "UserProfileUpdated")]

\* mutant: VerifyEmail without its guard
VerifyEmail_Unguarded(u, t) ==
    [u EXCEPT !.emailVerified = TRUE, !.verifiedAt = t, !.updatedAt = t,
              !.events = Append(@, "EmailVerified")]

\* part_007:93 (u *User) VerifyEmail
VerifyEmail(u, t) ==
    IF ~u.emailVerified
    THEN [u EXCEPT !.emailVerified = TRUE, !.verifiedAt = t, !.updatedAt = t,
                   !.events = Append(@, "EmailVerified")]
    ELSE u

\* part_007:81 (u *User) ClearEvents
ClearEvents(u) == [u EXCEPT !.events = <<>>]

\* mutant: the restored user announces its registration again
FromSnapshot_Replays(row) ==
    LET emailObj == NewEmail(row.email)
    IN  IF ~emailObj.ok THEN [ok |-> FALSE, user |-> NoUser]
        ELSE [ok |-> TRUE,
              user |-> Aggregate("user", row.id, row.auth0UserID, emailObj.value,
                                 row.displayName, row.bio, row.profileImageURL,
                                 row.emailVerified, row.createdAt, row.verifiedAt,
                                 row.updatedAt, <<"UserRegistered">>)]

\* part_007:104 FromSnapshot: [ok, user]
FromSnapshot(row) ==
    LET emailObj == NewEmail(row.email)
    IN  IF ~emailObj.ok THEN [ok |-> FALSE, user |-> NoUser]
        ELSE [ok |-> TRUE,
              user |-> Aggregate("user", row.id, row.auth0UserID, emailObj.value,
                                 row.displayName, row.bio, row.profileImageURL,
                                 row.emailVerified, row.createdAt, row.verifiedAt,
                                 row.updatedAt, <<>>)]

\* part_006:94 NewActiveUser
NewActiveUser(id, auth0UserID, email, displayName, emailVerified, t) ==
    Aggregate("active", id, auth0UserID, email, displayName, Empty, Empty,
              emailVerified, t, IF emailVerified THEN t ELSE NoTime, t,
              <<"UserRegistered">>)

\* part_006:120 (u *ProvisionalUser) ActivateUser
ActivateUser(u, auth0UserID, displayName, emailVerified, t) ==
    Aggregate("active", u.id, auth0UserID, u.email, displayName, Empty, Empty,
              emailVerified, u.createdAt, IF emailVerified THEN t ELSE NoTime, t,
              Append(u.events, "EmailVerified"))

\* part_006:65-77 (p *Profile) UpdateDisplayName, UpdateBio and
\* UpdateProfileImageURL, reached through the pointer ActiveUser.Profile()
\* returns (part_006:160): the field is set, nothing else
UpdateDisplayName(a, displayName) == [a EXCEPT !.displayName = displayName]
UpdateBio(a, bio) == [a EXCEPT !.bio = bio]
UpdateProfileImageURL(a, url) == [a EXCEPT !.profileImageURL = url]

\* part_006:174 (a *ActiveUser) UpdateProfile
ActiveUpdateProfile(a, displayName, bio, profileImageURL, t) ==
    [a EXCEPT !.displayName = displayName, !.bio = bio,
              !.profileImageURL = profileImageURL, !.updatedAt = t]

\* part_006:182 (a *ActiveUser) UpdateEmail
ActiveUpdateEmail(a, email, t) == [a EXCEPT !.email = email, !.updatedAt = t]

\* part_006:188 (a *ActiveUser) VerifyEmail
ActiveVerifyEmail(a, t) ==
    IF ~a.emailVerified
    THEN [a EXCEPT !.emailVerified = TRUE, !.verifiedAt = t, !.updatedAt = t,
                   !.events = Append(@, "EmailVerified")]
    ELSE a

\* part_006:212 FromSnapshot of the Provisional/Active design
FromSnapshotVariant(row) ==
    IF row.auth0UserID # Empty
    THEN Aggregate("active", row.id, row.auth0UserID, row.email, row.displayName,
                   row.bio, row.profileImageURL, row.emailVerified, row.createdAt,
                   row.verifiedAt, row.updatedAt, <<>>)
    ELSE Aggregate("provisional", row.id, Empty, row.email, Empty, Empty, Empty,
                   FALSE, row.createdAt, NoTime, NoTime, <<>>)

\* ------------------------------------------------------------- repository
\* PostgresUserRepository (unnamed/part_004) over the table of
\* migrations/001_create_users.sql.  A row holds the ten columns.
Row(u) ==
    [id |-> u.id, auth0UserID |-> u.auth0UserID, email |-> u.email,
     displayName |-> u.displayName, bio |-> u.bio,
     profileImageURL |-> u.profileImageURL, emailVerified |-> u.emailVerified,
     createdAt |-> u.createdAt, verifiedAt |-> u.verifiedAt,
     updatedAt |-> u.updatedAt]

\* mutant: the table without its two unique indexes
UniqueViolation_NoIndex(rows, r) == FALSE

\* 001_create_users.sql:4-5: auth0_user_id UNIQUE, email UNIQUE
UniqueViolation(rows, r) ==
    \E x \in rows : x.id # r.id /\ (x.auth0UserID = r.auth0UserID \/ x.email = r.email)

\* part_004:25 Save: INSERT ... ON CONFLICT (id) DO UPDATE SET every column but
\* id and created_at; the BEFORE UPDATE trigger stamps updated_at.
\* fault: the statement fails for a reason of its own (connection lost).
Save(rows, u, t, fault) ==
    LET r == Row(u) IN
    IF fault THEN [err |-> "transport", rows |-> rows]
    ELSE IF UniqueViolation(rows, r) THEN [err |-> "unique_violation", rows |-> rows]
    ELSE IF \E x \in rows : x.id = r.id
    THEN LET old == CHOOSE x \in rows : x.id = r.id
         IN  [err |-> "nil",
              rows |-> (rows \ {old}) \cup
                       {[r EXCEPT !.createdAt = old.createdAt, !.updatedAt = t]}]
    ELSE [err |-> "nil", rows |-> rows \cup {r}]

\* pgxpool QueryRow(...).Scan(...): the driver's own no-rows error when the
\* query selects nothing.  It is pgx.ErrNoRows, a value distinct from
\* database/sql's sql.ErrNoRows.
QueryRowScan(found, fault) ==
    IF fault THEN "transport"
    ELSE IF found = {} THEN "pgx.ErrNoRows"
    ELSE "nil"

\* part_004:91-96, 142-147, 193-198: if err == sql.ErrNoRows { ErrUserNotFound }
MapScanError(err) == IF err = "sql.ErrNoRows" THEN "ErrUserNotFound" ELSE err

\* part_004:164 FindByAuth0UserID: [err, row]
FindByAuth0UserID(rows, auth0UserID, fault) ==
    LET found == {x \in rows : x.auth0UserID = auth0UserID}
        err == QueryRowScan(found, fault)
    IN  IF err # "nil" THEN [err |-> MapScanError(err), row |-> Row(NoUser)]
        ELSE [err |-> "nil", row |-> CHOOSE x \in found : TRUE]

\* part_004:113 FindByEmail: [err, row]
FindByEmail(rows, email, fault) ==
    LET found == {x \in rows : x.email = email}
        err == QueryRowScan(found, fault)
    IN  IF err # "nil" THEN [err |-> MapScanError(err), row |-> Row(NoUser)]
        ELSE [err |-> "nil", row |-> CHOOSE x \in found : TRUE]

\* ---------------------------------------------------------- session codec
\* internal/infrastructure/session/cookie_store.go with gorilla/securecookie
\* built by securecookie.New(secret, nil) and the JSON serializer: the value
\* is serialized, time-stamped and authenticated by an HMAC keyed with the
\* secret over (cookie name, timestamp, value).  blockKey is nil, so the value
\* is not encrypted.

\* securecookie.New: maxAge 86400*30 seconds, scaled to the model's clock
SecureCookieMaxAge == 3
\* securecookie.New: maxLength 4096 bytes, scaled to the model's strings
SecureCookieMaxLength == 16

BadByte == "\\xff"          \* a byte that is not valid UTF-8
ReplacementChar == "\\ufffd"

\* cookie_store.go:15 SessionData
SessionData(uid, sub, email, name, exp) ==
    [uid |-> uid, sub |-> sub, email |-> email, name |-> name, exp |-> exp]
NoSession == SessionData(Empty, Empty, Empty, Empty, NoTime)

\* encoding/json on a Go string: invalid UTF-8 is replaced by U+FFFD
JSONString(s) == [i \in DOMAIN s |-> IF s[i] = BadByte THEN ReplacementChar ELSE s[i]]

\* securecookie.JSONEncoder.Serialize
Serialize(data) ==
    [uid |-> JSONString(data.uid), sub |-> JSONString(data.sub),
     email |-> JSONString(data.email), name |-> JSONString(data.name),
     exp |-> data.exp, whole |-> TRUE]

\* securecookie.JSONEncoder.Deserialize: [ok, data]; a cut text does not parse
Deserialize(value) ==
    IF ~value.whole THEN [ok |-> FALSE, data |-> NoSession]
    ELSE [ok |-> TRUE,
          data |-> SessionData(value.uid, value.sub, value.email, value.name, value.exp)]

SerializedLen(value) ==
    Len(value.uid) + Len(value.sub) + Len(value.email) + Len(value.name)

\* the HMAC of securecookie.createMac over name|timestamp|value under key
Mac(key, name, ts, value) == [key |-> key, name |-> name, ts |-> ts, value |-> value]

\* A cookie value: the text date|value|mac in base64.  slack is the unused
\* low bits of the last base64 character (the encoder writes 0), b64 tells
\* whether every character of the text is of the base64 alphabet.  origin is
\* a ghost field: who made the value.
CookieValue(ts, value, mac, origin) ==
    [ts |-> ts, value |-> value, mac |-> mac, slack |-> 0, b64 |-> TRUE,
     origin |-> origin]

\* the base64 text has unused bits when the byte count of date|value|mac is
\* no multiple of 3 (counted here as the value and the two separators)
HasSlack(cookie) == (SerializedLen(cookie.value) + 2) % 3 # 0
NoCookie == CookieValue(NoTime, [Serialize(NoSession) EXCEPT !.whole = FALSE],
                        Mac("", Empty, NoTime, Serialize(NoSession)), "none")

\* securecookie's decode of the cookie text, base64.URLEncoding.DecodeString:
\* a character outside the alphabet fails the call; the encoding is not
\* Strict, so the unused low bits of the last character are dropped without
\* a look at them.  [ok, ts, value, mac]: the bytes date|value|mac
Base64Decode(cookie) ==
    IF ~cookie.b64
    THEN [ok |-> FALSE, ts |-> NoTime, value |-> NoCookie.value, mac |-> NoCookie.mac]
    ELSE [ok |-> TRUE, ts |-> cookie.ts, value |-> cookie.value, mac |-> cookie.mac]

\* securecookie.New(hashKey, blockKey) at cookie_store.go:49 is given nil as
\* blockKey: the serialized value is signed, not encrypted
BlockKey == "nil"
Sealed == [Serialize(NoSession) EXCEPT !.whole = FALSE]
\* what somebody who holds the cookie but no key reads in it
PublicView(cookie) == IF BlockKey = "nil" THEN cookie.value ELSE Sealed

\* securecookie.SecureCookie.Encode: [ok, cookie]
Encode(c, data, t) ==
    LET value == Serialize(data) IN
    IF SerializedLen(value) > SecureCookieMaxLength THEN [ok |-> FALSE, cookie |-> NoCookie]
    ELSE [ok |-> TRUE,
          cookie |-> CookieValue(t, value, Mac(c.secret, c.cookieName, t, value), "store")]

\* why securecookie.SecureCookie.Decode refuses a value ("" when it does not):
\* the length of the text, then its base64 decoding, then the MAC over the
\* decoded date and value, then the age of the timestamp, then the JSON
DecodeError(c, cookie, t) ==
    LET b == Base64Decode(cookie) IN
    IF SerializedLen(cookie.value) > SecureCookieMaxLength THEN "the value is too long"
    ELSE IF ~b.ok THEN "base64 decode failed"
    ELSE IF b.mac # Mac(c.secret, c.cookieName, b.ts, b.value)
    THEN "the value is not valid"
    ELSE IF b.ts < t - SecureCookieMaxAge THEN "expired timestamp"
    ELSE IF ~Deserialize(b.value).ok THEN "decoding failed"
    ELSE ""

\* securecookie.SecureCookie.Decode: [ok, data]
Decode(c, cookie, t) ==
    LET b == Base64Decode(cookie) IN
    IF SerializedLen(cookie.value) > SecureCookieMaxLength THEN [ok |-> FALSE, data |-> NoSession]
    ELSE IF ~b.ok THEN [ok |-> FALSE, data |-> NoSession]
    ELSE IF b.mac # Mac(c.secret, c.cookieName, b.ts, b.value)
    THEN [ok |-> FALSE, data |-> NoSession]
    ELSE IF b.ts < t - SecureCookieMaxAge THEN [ok |-> FALSE, data |-> NoSession]
    ELSE Deserialize(b.value)

\* mutant: the expiry instant itself counts as expired
After_OrAt(t, u) == t >= u

\* time.Time.After
After(t, u) == t > u

\* cookie_store.go:86 SetSession: [err, cookie, maxAge]
SetSession(c, data, t) ==
    LET stamped == [data EXCEPT !.exp = t + c.maxAge]
        enc == Encode(c, stamped, t)
    IN  IF ~enc.ok THEN [err |-> "encode", cookie |-> NoCookie, maxAge |-> 0]
        ELSE [err |-> "nil", cookie |-> enc.cookie, maxAge |-> c.maxAge]

\* cookie_store.go:113 GetSession: [err, data]
GetSession(c, cookie, t) ==
    IF cookie = NoCookie THEN [err |-> "not_found", data |-> NoSession]
    ELSE LET dec == Decode(c, cookie, t) IN
         IF ~dec.ok THEN [err |-> "decode", data |-> NoSession]
         ELSE IF After(t, dec.data.exp) THEN [err |-> "expired", data |-> NoSession]
         ELSE [err |-> "nil", data |-> dec.data]

\* the text of the error GetSession returns (cookie_store.go:117, 124, 129)
GetSessionMessage(c, cookie, t) ==
    CASE GetSession(c, cookie, t).err = "not_found" -> <<"session cookie not found">>
      [] GetSession(c, cookie, t).err = "decode" ->
            <<"failed to decode session", DecodeError(c, cookie, t)>>
      [] GetSession(c, cookie, t).err = "expired" -> <<"session has expired">>
      [] OTHER -> <<>>

\* ------------------------------------------------------------- HTTP layer
\* What a handler or middleware of the session layer answers.  calls counts
\* the invocations of the downstream handler, ctx is the request context it
\* was given, setCookie / attr the Set-Cookie header (value and Max-Age).
NoCtx == [set |-> FALSE, session |-> NoSession, user_id |-> Empty,
          auth0_user_id |-> Empty, user_email |-> Empty, user_name |-> Empty]
Ctx(data) == [set |-> TRUE, session |-> data, user_id |-> data.uid,
              auth0_user_id |-> data.sub, user_email |-> data.email,
              user_name |-> data.name]
Body(error, user, authenticated) ==
    [error |-> error, user |-> user, authenticated |-> authenticated]
NoBody == Body("", NoSession, FALSE)
NoAttr == [present |-> FALSE, seconds |-> 0]
Reply(status, body, calls, ctx, setCookie, attr, msg) ==
    [status |-> status, body |-> body, calls |-> calls, ctx |-> ctx,
     setCookie |-> setCookie, attr |-> attr, msg |-> msg]
NoReply == Reply(0, NoBody, 0, NoCtx, NoCookie, NoAttr, <<>>)

\* net/http (*Cookie).String for the MaxAge field set at cookie_store.go:102:
\* MaxAge > 0 is written as Max-Age=n, MaxAge < 0 as Max-Age=0, and
\* MaxAge = 0 writes no Max-Age attribute
MaxAgeAttribute(maxAge) ==
    IF maxAge > 0 THEN [present |-> TRUE, seconds |-> maxAge]
    ELSE IF maxAge < 0 THEN [present |-> TRUE, seconds |-> 0]
    ELSE NoAttr

\* cookie_store.go:86-110 SetSession as seen by the client: the Set-Cookie
\* header of the response, or none when encoding failed
SetSessionReply(c, data, t) ==
    LET set == SetSession(c, data, t) IN
    IF set.err # "nil" THEN Reply(307, Body("session_failed", NoSession, FALSE), 0, NoCtx,
                                  NoCookie, NoAttr, <<"failed to encode session">>)
    ELSE Reply(307, NoBody, 0, NoCtx, set.cookie, MaxAgeAttribute(set.maxAge), <<>>)

\* mutant: the middleware lets the request through when the session is bad
RequireAuth_FallThrough(c, cookie, t) ==
    LET r == GetSession(c, cookie, t) IN
    IF r.err # "nil"
    THEN Reply(200, NoBody, 1, NoCtx, NoCookie, NoAttr, GetSessionMessage(c, cookie, t))
    ELSE Reply(200, NoBody, 1, Ctx(r.data), NoCookie, NoAttr, <<>>)

\* mutant: a validated session is renewed (sliding expiry)
RequireAuth_Sliding(c, cookie, t) ==
    LET r == GetSession(c, cookie, t) IN
    IF r.err # "nil"
    THEN Reply(401, Body("Authentication required", NoSession, FALSE), 0, NoCtx,
               NoCookie, NoAttr, GetSessionMessage(c, cookie, t))
    ELSE Reply(200, NoBody, 1, Ctx(r.data), SetSession(c, r.data, t).cookie,
               MaxAgeAttribute(c.maxAge), <<>>)

\* mutant: the 401 body tells the client why the session was refused
RequireAuth_TellsWhy(c, cookie, t) ==
    LET r == GetSession(c, cookie, t) IN
    IF r.err # "nil"
    THEN Reply(401, Body(r.err, NoSession, FALSE), 0, NoCtx,
               NoCookie, NoAttr, GetSessionMessage(c, cookie, t))
    ELSE Reply(200, NoBody, 1, Ctx(r.data), NoCookie, NoAttr, <<>>)

\* cookie_store.go:199-224 Middleware.RequireAuth around a downstream handler
\* (the handler's own answer is taken to be 200 with an empty body)
RequireAuth(c, cookie, t) ==
    LET r == GetSession(c, cookie, t) IN
    IF r.err # "nil"
    THEN Reply(401, Body("Authentication required", NoSession, FALSE), 0, NoCtx,
               NoCookie, NoAttr, GetSessionMessage(c, cookie, t))
    ELSE Reply(200, NoBody, 1, Ctx(r.data), NoCookie, NoAttr, <<>>)

\* cookie_store.go:228-248 Middleware.OptionalAuth
OptionalAuth(c, cookie, t) ==
    LET r == GetSession(c, cookie, t) IN
    IF r.err = "nil"
    THEN Reply(200, NoBody, 1, Ctx(r.data), NoCookie, NoAttr, <<>>)
    ELSE Reply(200, NoBody, 1, NoCtx, NoCookie, NoAttr, <<>>)

\* routes.go:191-224 AuthHandler.Me
Me(c, cookie, t) ==
    LET r == GetSession(c, cookie, t) IN
    IF r.err # "nil"
    THEN Reply(401, Body("User not authenticated", NoSession, FALSE), 0, NoCtx,
               NoCookie, NoAttr, GetSessionMessage(c, cookie, t))
    ELSE Reply(200, Body("", r.data, TRUE), 0, NoCtx, NoCookie, NoAttr, <<>>)

\* cookie_store.go:136-149 ClearSession as seen by the client: a Set-Cookie
\* header with an empty value and MaxAge -1
ClearedCookie == [NoCookie EXCEPT !.origin = "cleared"]
ClearSession(c) ==
    Reply(0, NoBody, 0, NoCtx, ClearedCookie, MaxAgeAttribute(-1), <<>>)

\* routes.go:227-265 AuthHandler.Logout: GetSession for the log only, then
\* ClearSession and the redirect to the provider's logout URL
Logout(c, cookie, t) ==
    [ClearSession(c) EXCEPT !.status = 307]

\* what the browser keeps of a Set-Cookie header: a cookie whose Max-Age is
\* 0 is deleted
Stored(reply, cookie) ==
    IF reply.setCookie = NoCookie THEN cookie
    ELSE IF reply.attr.present /\ reply.attr.seconds = 0 THEN NoCookie
    ELSE reply.setCookie

\* the session layer's answer on a route
Handle(route, c, cookie, t) ==
    CASE route = "protected" -> RequireAuth(c, cookie, t)
      [] route = "optional" -> OptionalAuth(c, cookie, t)
      [] OTHER -> Me(c, cookie, t)
Routes == {"protected", "optional", "me"}

\* ------------------------------------------------- repository as built
\* The repository returns aggregates: part_004:214 reconstructUser calls
\* FromSnapshot on the row found.  [err, user]
RepoFindByAuth0UserID(rows, auth0UserID, fault) ==
    LET res == FindByAuth0UserID(rows, auth0UserID, fault) IN
    IF res.err # "nil" THEN [err |-> res.err, user |-> NoUser]
    ELSE LET snap == FromSnapshot(res.row)
         IN  IF snap.ok THEN [err |-> "nil", user |-> snap.user]
             ELSE [err |-> "invalid email format", user |-> NoUser]

\* The repository of the Provisional/Active build: the PostgresUserRepository
\* of internal/experience/domain/experience_content_test.go:251-486, over the
\* same table.
\* :338-382, :385-429, :432-476 the three finds: any Scan error, the driver's
\* no-rows error included, is returned wrapped; a row found is restored with
\* NewEmail and FromSnapshot.
VariantFind(found, fault) ==
    LET err == QueryRowScan(found, fault) IN
    IF err # "nil" THEN [err |-> err, user |-> NoUser]
    ELSE LET x == CHOOSE y \in found : TRUE
             userEmail == NewEmail(x.email)
         IN  IF ~userEmail.ok THEN [err |-> "failed to create email", user |-> NoUser]
             ELSE [err |-> "nil",
                   user |-> FromSnapshotVariant([x EXCEPT !.email = userEmail.value])]

\* :432 FindByAuth0UserID
VariantFindByAuth0UserID(rows, auth0UserID, fault) ==
    VariantFind({x \in rows : x.auth0UserID = auth0UserID}, fault)

\* :338 FindByEmail
VariantFindByEmail(rows, email, fault) ==
    VariantFind({x \in rows : x.email = email}, fault)

\* mutant: the save of an active user as an upsert by id that overwrites the
\* subject id
saveActiveUser_UpsertByID(rows, u, t, fault) ==
    LET r == Row(u)
        clash == \E x \in rows :
                    x.id # r.id /\ (x.auth0UserID = r.auth0UserID \/ x.email = r.email)
    IN  IF fault THEN [err |-> "transport", rows |-> rows]
        ELSE IF clash THEN [err |-> "unique_violation", rows |-> rows]
        ELSE [err |-> "nil", rows |-> {x \in rows : x.id # r.id} \cup {r}]

\* :291 saveActiveUser: INSERT ... ON CONFLICT (auth0_user_id) DO UPDATE SET
\* email, display_name, bio, profile_image_url, email_verified, verified_at,
\* updated_at.  A row with the same subject id is updated in place (its id,
\* subject id and created_at stay; the BEFORE UPDATE trigger stamps
\* updated_at); without one the row is inserted, and the primary key and the
\* unique index on email refuse a row whose id or email is taken.
saveActiveUser(rows, u, t, fault) ==
    LET r == Row(u)
        arbiter == {x \in rows : x.auth0UserID = r.auth0UserID}
    IN  IF fault THEN [err |-> "transport", rows |-> rows]
        ELSE IF arbiter # {}
        THEN LET old == CHOOSE x \in arbiter : TRUE
                 upd == [old EXCEPT !.email = r.email, !.displayName = r.displayName,
                                    !.bio = r.bio,
                                    !.profileImageURL = r.profileImageURL,
                                    !.emailVerified = r.emailVerified,
                                    !.verifiedAt = r.verifiedAt, !.updatedAt = t]
             IN  IF \E x \in rows \ {old} : x.email = upd.email
                 THEN [err |-> "unique_violation", rows |-> rows]
                 ELSE [err |-> "nil", rows |-> (rows \ {old}) \cup {upd}]
        ELSE IF \E x \in rows : x.id = r.id \/ x.email = r.email
        THEN [err |-> "unique_violation", rows |-> rows]
        ELSE [err |-> "nil", rows |-> rows \cup {r}]

\* :321 saveProvisionalUser: INSERT (id, '', email, created_at) ON CONFLICT
\* (email) DO NOTHING; the other columns take their defaults.  The primary
\* key and the unique index on auth0_user_id (which '' occupies like any
\* other value) refuse the row.
saveProvisionalUser(rows, u, t, fault) ==
    LET r == [id |-> u.id, auth0UserID |-> Empty, email |-> u.email,
              displayName |-> Empty, bio |-> Empty, profileImageURL |-> Empty,
              emailVerified |-> FALSE, createdAt |-> u.createdAt,
              verifiedAt |-> NoTime, updatedAt |-> t]
    IN  IF fault THEN [err |-> "transport", rows |-> rows]
        ELSE IF \E x \in rows : x.email = r.email THEN [err |-> "nil", rows |-> rows]
        ELSE IF \E x \in rows : x.id = r.id \/ x.auth0UserID = Empty
        THEN [err |-> "unique_violation", rows |-> rows]
        ELSE [err |-> "nil", rows |-> rows \cup {r}]

\* :275 Save: by the kind of the user
VariantSave(rows, u, t, fault) ==
    IF u.kind = "active" THEN saveActiveUser(rows, u, t, fault)
    ELSE IF u.kind = "provisional" THEN saveProvisionalUser(rows, u, t, fault)
    ELSE [err |-> "unknown user type", rows |-> rows]

\* ---------------------------------------------------------- reconciliation
\* Each operator is the code between two repository calls; it yields the
\* aggregate to save, or the error the function returns.
Step(next, user) == [next |-> next, user |-> user]

\* mutant: the service registers a new user whatever the lookup found
ServiceReconcile_AlwaysRegister(res, cmd, id, t) ==
    IF res.err # "nil" /\ res.err # "ErrUserNotFound" THEN Step("fail", NoUser)
    ELSE LET email == NewEmail(cmd.email)
         IN  IF ~email.ok THEN Step("fail", NoUser)
             ELSE Step("save", NewUser(id, cmd.sub, email.value, cmd.name,
                                       cmd.emailVerified, t))

\* user_service_impl.go:22-46 RegisterOrUpdateUserFromAuth, up to the Save
ServiceReconcile(res, cmd, id, t) ==
    IF res.err # "nil" /\ res.err # "ErrUserNotFound" THEN Step("fail", NoUser)
    ELSE IF res.user # NoUser
    THEN Step("save", UpdateProfile(res.user, cmd.name, Empty, cmd.picture, t))
    ELSE LET email == NewEmail(cmd.email)
         IN  IF ~email.ok THEN Step("fail", NoUser)
             ELSE Step("save", NewUser(id, cmd.sub, email.value, cmd.name,
                                       cmd.emailVerified, t))

\* callback_handler.go:86-121 createOrUpdateUser, up to the Save
HandlerReconcile(res, c, id, t) ==
    IF res.err = "nil"
    THEN LET u1 == IF res.user.displayName # c.name
                   THEN UpdateProfile(res.user, c.name, res.user.bio, c.picture, t)
                   ELSE res.user
             u2 == IF c.emailVerified /\ ~u1.emailVerified THEN VerifyEmail(u1, t) ELSE u1
         IN  Step("save", u2)
    ELSE LET email == NewEmail(c.email)
         IN  IF ~email.ok THEN Step("fail", NoUser)
             ELSE LET newUser == NewUser(id, c.sub, email.value, c.name, c.emailVerified, t)
                  IN  Step("save", IF c.picture # Empty
                                   THEN UpdateProfile(newUser, c.name, Empty, c.picture, t)
                                   ELSE newUser)

\* part_013:85-123 createOrUpdateUser, from the lookup by subject id to the
\* lookup by email
VariantReconcileBySub(res, c, t) ==
    IF res.err = "nil" /\ res.user.kind = "active"
    THEN LET a == res.user
             email == NewEmail(c.email)
         IN  IF a.email # c.email /\ ~email.ok THEN Step("fail", NoUser)
             ELSE LET a1 == IF a.email # c.email THEN ActiveUpdateEmail(a, email.value, t) ELSE a
                      a2 == IF a1.displayName # c.name
                            THEN ActiveUpdateProfile(a1, c.name, a1.bio, c.picture, t)
                            ELSE a1
                      a3 == IF c.emailVerified /\ ~a2.emailVerified
                            THEN ActiveVerifyEmail(a2, t) ELSE a2
                  IN  Step("save", a3)
    ELSE IF ~NewEmail(c.email).ok THEN Step("fail", NoUser)
    ELSE Step("findEmail", NoUser)

\* part_013:125-150 createOrUpdateUser, from the lookup by email to the Save
VariantReconcileByEmail(res, c, id, t) ==
    IF res.err = "nil" /\ res.user.kind = "provisional"
    THEN LET activeUser == ActivateUser(res.user, c.sub, c.name, c.emailVerified, t)
         IN  Step("save", IF c.picture # Empty
                          THEN ActiveUpdateProfile(activeUser, c.name, Empty, c.picture, t)
                          ELSE activeUser)
    ELSE LET newUser == NewActiveUser(id, c.sub, NewEmail(c.email).value, c.name,
                                      c.emailVerified, t)
         IN  Step("save", IF c.picture # Empty
                          THEN ActiveUpdateProfile(newUser, c.name, Empty, c.picture, t)
                          ELSE newUser)

\* HandleCallback's session data: part_013:74-79 uses the claims,
\* callback_handler.go:72-80 and part_013:231-239 use the saved user
CallbackSessionData(b, user, c, tokenExpiry) ==
    IF b = "prov" THEN SessionData(user.id, c.sub, c.email, c.name, NoTime)
    ELSE SessionData(user.id, user.auth0UserID, user.email, user.displayName, tokenExpiry)

\* ------------------------------------------------------------------ inputs
Procs == {"1", "2"}
Builds == {"prov", "repo", "svc"}

Sub1 == <<"s", "1">>
Sub2 == <<"s", "2">>
EmailA == <<"a", "@", "x", ".", "i", "o">>
RawEmailA == <<" ", "A", "@", "X", ".", "i", "o">>
EmailB == <<"b", "@", "x", ".", "i", "o">>
BadEmail == <<"a", "@", "x">>
NameA == <<"A", "l">>
NameB == <<"B", "o">>
Pic1 == <<"p">>
Bio1 == <<"z">>
User0 == <<"u", "0">>
User9 == <<"u", "9">>

\* uuid.New(): a fresh id; a request creates at most one user
UUID(p) == <<"n", p>>

Claims(sub, email, emailVerified, name, picture) ==
    [sub |-> sub, email |-> email, emailVerified |-> emailVerified,
     name |-> name, picture |-> picture]
NoClaims == Claims(Empty, Empty, FALSE, Empty, Empty)

ClaimsSet ==
    {Claims(s, e, TRUE, NameB, Pic1) : s \in {Sub1, Sub2}, e \in {RawEmailA, EmailB}}
    \cup {Claims(Sub1, RawEmailA, FALSE, NameA, Empty),
          Claims(Sub1, BadEmail, TRUE, NameA, Empty)}

Query(code, state, error) == [code |-> code, state |-> state, error |-> error]
NoQuery == Query("", "", "")
Queries ==
    {Query("code", "state", ""), Query("code", "forged", ""),
     Query("", "state", ""), Query("", "state", "access_denied"),
     Query("code", "state", "access_denied")}

\* rows left in the table by earlier logins and registrations
LinkedRow ==
    Row(Aggregate("user", User0, Sub1, EmailA, NameA, Bio1, Empty, FALSE, 0, NoTime, 0, <<>>))
UnlinkedRow ==
    Row(Aggregate("user", User0, Empty, EmailA, Empty, Empty, Empty, FALSE, 0, NoTime, 0, <<>>))
OtherRow ==
    Row(Aggregate("user", User9, Sub2, EmailB, NameB, Empty, Pic1, TRUE, 0, 0, 0, <<>>))
InitialTables == {{}, {LinkedRow}, {UnlinkedRow}, {LinkedRow, OtherRow}}

Config(secret, cookieName, maxAge) ==
    [secret |-> secret, cookieName |-> cookieName, maxAge |-> maxAge]

Response(error, cookie, session) ==
    [sent |-> TRUE, error |-> error, cookie |-> cookie, session |-> session]
NoResponse == [sent |-> FALSE, error |-> "", cookie |-> NoCookie, session |-> NoSession]

\* the server process of main(): its environment (SESSION_SECRET and
\* SESSION_MAX_AGE), how far main() got, the requests answered so far and
\* the message of the logger.Fatal that ended it
Server(phase, secret, maxAgeEnv, served, fatal) ==
    [phase |-> phase, secret |-> secret, maxAgeEnv |-> maxAgeEnv,
     served |-> served, fatal |-> fatal]
\* len(secretKey) != 32 (cookie_store.go:44)
SecretKeyLength == 32
\* a SESSION_SECRET of n bytes
SecretOfLength(n) == [i \in 1..n |-> "k"]
\* the process the requests of Spec and SpecSession are served by
Serving == Server("listening", SecretOfLength(SecretKeyLength), Empty, 0, "")

\* the arguments of a call on an aggregate; a call leaves unused ones empty
Args(sub, email, name, bio, picture, verified) ==
    [sub |-> sub, email |-> email, name |-> name, bio |-> bio,
     picture |-> picture, verified |-> verified]
NoArgs == Args(Empty, Empty, Empty, Empty, Empty, FALSE)
\* a call on the held aggregate: the method, its arguments, the time of the
\* call and the aggregate as it was before
Call(op, args, at, before) == [op |-> op, args |-> args, at |-> at, before |-> before]
NoCall == Call("none", NoArgs, NoTime, NoUser)

\* no unit of work and no registration use case has been built
NoUow == [phase |-> "absent"]
NoReg == [phase |-> "absent"]

\* the domain layer, the unit of work and the registration use case are not
\* exercised
Idle == agg = NoUser /\ last = NoCall /\ uow = NoUow /\ reg = NoReg

\* ------------------------------------------------------------------- state
Init ==
    /\ build \in Builds
    /\ users \in InitialTables
    /\ now = 1    \* the rows of InitialTables were written at time 0
    /\ pending = {}
    /\ pc = [p \in Procs |-> "idle"]
    /\ query = [p \in Procs |-> NoQuery]
    /\ claims = [p \in Procs |-> NoClaims]
    /\ mem = [p \in Procs |-> NoUser]
    /\ pre = [p \in Procs |-> {}]
    /\ after = [p \in Procs |-> {}]
    /\ log = [p \in Procs |-> <<>>]
    /\ out = [p \in Procs |-> NoResponse]
    /\ cfg = Config("K1", "zen_session", 2)
    /\ jar = NoCookie
    /\ got = [op |-> "none", cookie |-> NoCookie, at |-> NoTime,
              err |-> "nil", data |-> NoSession, input |-> NoSession,
              http |-> NoReply]
    /\ srv = Serving
    /\ Idle

\* the handler returns a redirect to the frontend carrying ?error=
Redirect(p, error, events) ==
    /\ pc' = [pc EXCEPT ![p] = "done"]
    /\ out' = [out EXCEPT ![p] = Response(error, NoCookie, NoSession)]
    /\ log' = [log EXCEPT ![p] = @ \o events \o <<"redirect">>]

\* routes.go:56 SignIn: GET /auth/login
SignIn ==
    /\ pending' = pending \cup {"state"}
    /\ UNCHANGED <<build, users, now, pc, query, claims, mem, pre, after, log, out>>
    /\ UNCHANGED sessionVars
    /\ UNCHANGED domainVars

\* mutant: the handler without its check of the code parameter
CheckQuery_NoCodeCheck(q) == q.error

\* routes.go:94-121 Callback, the checks of the query parameters: the error
\* the redirect carries, or "" when the handler goes on to HandleCallback
CheckQuery(q) ==
    IF q.error # "" THEN q.error
    ELSE IF q.code = "" THEN "no_code"
    ELSE ""

\* routes.go:76-121 Callback: the query parameters are read and checked
Callback(p) ==
    /\ pc[p] = "idle"
    /\ p = "2" => pc["1"] # "idle"  \* the requests are alike: number them as they arrive
    /\ \E q \in Queries :
        /\ query' = [query EXCEPT ![p] = q]
        /\ IF CheckQuery(q) # "" THEN Redirect(p, CheckQuery(q), <<>>)
           ELSE /\ pc' = [pc EXCEPT ![p] = "exchange"]
                /\ UNCHANGED <<out, log>>
    /\ UNCHANGED <<build, users, now, pending, claims, mem, pre, after>>
    /\ UNCHANGED sessionVars
    /\ UNCHANGED domainVars

\* What the provider answers to one callback: whether it accepts the code,
\* whether the token answer holds an id_token that verifies, and whether the
\* verified token's payload fits the Claims struct ("unparsable": it does
\* not, e.g. email_verified given as a string).
Answer(exchange, idToken, c) == [exchange |-> exchange, idToken |-> idToken, claims |-> c]
Answers ==
    {Answer("rejected", "missing", NoClaims), Answer("ok", "missing", NoClaims),
     Answer("ok", "invalid", Claims(Sub1, EmailB, TRUE, NameB, Pic1)),
     Answer("ok", "unparsable", NoClaims)}
    \cup {Answer("ok", "valid", c) : c \in ClaimsSet}

\* mutant: the claims of a token that failed verification are used all the same
ExchangeAndVerify_TrustUnverified(answer) ==
    IF answer.exchange # "ok" THEN [ok |-> FALSE, events |-> <<"exchange_failed">>]
    ELSE IF answer.idToken = "missing" THEN [ok |-> FALSE, events |-> <<"exchange_ok">>]
    ELSE IF answer.idToken = "invalid"
    THEN [ok |-> TRUE, events |-> <<"exchange_ok", "verify_failed">>]
    ELSE IF answer.idToken = "unparsable"
    THEN [ok |-> FALSE, events |-> <<"exchange_ok", "verify_ok", "claims_failed">>]
    ELSE [ok |-> TRUE, events |-> <<"exchange_ok", "verify_ok">>]

\* callback_handler.go:41-63 HandleCallback up to the claims: the code is
\* exchanged for tokens, the id_token is taken from the answer and verified,
\* and the claims are read from it.  [ok, events]
ExchangeAndVerify(answer) ==
    IF answer.exchange # "ok" THEN [ok |-> FALSE, events |-> <<"exchange_failed">>]
    ELSE IF answer.idToken = "missing" THEN [ok |-> FALSE, events |-> <<"exchange_ok">>]
    ELSE IF answer.idToken = "invalid"
    THEN [ok |-> FALSE, events |-> <<"exchange_ok", "verify_failed">>]
    ELSE IF answer.idToken = "unparsable"
    THEN [ok |-> FALSE, events |-> <<"exchange_ok", "verify_ok", "claims_failed">>]
    ELSE [ok |-> TRUE, events |-> <<"exchange_ok", "verify_ok">>]

Authenticate(p) ==
    /\ pc[p] = "exchange"
    /\ \E answer \in Answers :
        LET r == ExchangeAndVerify(answer) IN
        IF r.ok
        THEN /\ claims' = [claims EXCEPT ![p] = answer.claims]
             /\ pc' = [pc EXCEPT ![p] = "findSub"]
             /\ log' = [log EXCEPT ![p] = @ \o r.events]
             /\ out' = out
        ELSE /\ Redirect(p, "auth_failed", r.events)
             /\ claims' = claims
    /\ UNCHANGED <<build, users, now, pending, query, mem, pre, after>>
    /\ UNCHANGED sessionVars
    /\ UNCHANGED domainVars

\* what a repository call leaves in the request's log
ReadEvent(fault) == IF fault THEN "repo_read_fault" ELSE "repo_read"
WriteEvent(err) ==
    CASE err = "nil" -> "repo_write"
      [] err = "unique_violation" -> "repo_write_conflict"
      [] OTHER -> "repo_write_fault"
RepoEvents ==
    {"repo_read", "repo_read_fault", "repo_write", "repo_write_conflict", "repo_write_fault"}

\* createOrUpdateUser, first repository call: FindByAuth0UserID
FindSub(p) ==
    /\ pc[p] = "findSub"
    /\ \E fault \in BOOLEAN :
        LET c == claims[p]
            step == CASE build = "svc" ->
                            ServiceReconcile(RepoFindByAuth0UserID(users, c.sub, fault),
                                             c, UUID(p), now)
                      [] build = "repo" ->
                            HandlerReconcile(RepoFindByAuth0UserID(users, c.sub, fault),
                                             c, UUID(p), now)
                      [] OTHER ->
                            VariantReconcileBySub(VariantFindByAuth0UserID(users, c.sub, fault),
                                                  c, now)
        IN  /\ mem' = [mem EXCEPT ![p] = step.user]
            /\ IF step.next = "fail"
               THEN Redirect(p, "auth_failed", <<ReadEvent(fault)>>)
               ELSE /\ pc' = [pc EXCEPT ![p] = step.next]
                    /\ log' = [log EXCEPT ![p] = Append(@, ReadEvent(fault))]
                    /\ out' = out
    /\ pre' = [pre EXCEPT ![p] = users]
    /\ after' = [after EXCEPT ![p] = {q \in Procs : pc[q] = "done"}]
    /\ UNCHANGED <<build, users, now, pending, query, claims>>
    /\ UNCHANGED sessionVars
    /\ UNCHANGED domainVars

\* part_013:125 createOrUpdateUser, second repository call: FindByEmail
FindEmail(p) ==
    /\ pc[p] = "findEmail"
    /\ \E fault \in BOOLEAN :
        LET c == claims[p]
            step == VariantReconcileByEmail(
                        VariantFindByEmail(users, NewEmail(c.email).value, fault),
                        c, UUID(p), now)
        IN  /\ mem' = [mem EXCEPT ![p] = step.user]
            /\ pc' = [pc EXCEPT ![p] = step.next]
            /\ log' = [log EXCEPT ![p] = Append(@, ReadEvent(fault))]
    /\ UNCHANGED <<build, users, now, pending, query, claims, pre, after, out>>
    /\ UNCHANGED sessionVars
    /\ UNCHANGED domainVars

\* createOrUpdateUser, last repository call: Save; an error fails the login.
\* Then callback_handler.go:72-82 and routes.go:140-175: the session data,
\* the cookie and the redirect to the frontend.
SaveUser(p) ==
    /\ pc[p] = "save"
    /\ \E fault \in BOOLEAN :
        LET res == IF build = "prov" THEN VariantSave(users, mem[p], now, fault)
                   ELSE Save(users, mem[p], now, fault)
            data == CallbackSessionData(build, mem[p], claims[p], now + 1)
            set == SetSession(cfg, data, now)
        IN  /\ users' = res.rows
            /\ IF res.err # "nil"
               THEN Redirect(p, "auth_failed", <<WriteEvent(res.err)>>)
               ELSE IF set.err # "nil"
               THEN Redirect(p, "session_failed", <<"repo_write">>)
               ELSE /\ pc' = [pc EXCEPT ![p] = "done"]
                    /\ out' = [out EXCEPT ![p] = Response("", set.cookie, data)]
                    /\ log' = [log EXCEPT ![p] = @ \o <<"repo_write", "cookie_set", "redirect">>]
    /\ UNCHANGED <<build, now, pending, query, claims, mem, pre, after>>
    /\ UNCHANGED sessionVars
    /\ UNCHANGED domainVars

Next ==
    \/ SignIn
    \/ \E p \in Procs : Callback(p)
    \/ \E p \in Procs : Authenticate(p)
    \/ \E p \in Procs : FindSub(p)
    \/ \E p \in Procs : FindEmail(p)
    \/ \E p \in Procs : SaveUser(p)

Spec == Init /\ [][Next]_vars

\* ------------------------------------------------------ properties of Spec
Has(p, e) == \E i \in DOMAIN log[p] : log[p][i] = e
TouchedRepo(p) == \E i \in DOMAIN log[p] : log[p][i] \in RepoEvents
Faulted(p) == Has(p, "repo_read_fault") \/ Has(p, "repo_write_fault")
Finished(p) == pc[p] = "done"
LoggedIn(p) == Finished(p) /\ out[p].error = ""
\* no other request wrote to the table between p's first lookup and now
Undisturbed(p) == \A q \in Procs \ {p} : q \in after[p] \/ ~Has(q, "repo_write")
LinkedTo(rows, sub) == {x \in rows : x.auth0UserID = sub}
HoldingEmail(rows, email) == {x \in rows : x.email = email}

\* C1's case: a finished, undisturbed, fault-free reconciliation of claims
\* whose subject id no row carries while an unlinked row carries their
\* normalized email
C1_Case(p) ==
    /\ Finished(p) /\ TouchedRepo(p) /\ ~Faulted(p) /\ Undisturbed(p)
    /\ NewEmail(claims[p].email).ok
    /\ LinkedTo(pre[p], claims[p].sub) = {}
    /\ \E x \in HoldingEmail(pre[p], NewEmail(claims[p].email).value) :
            x.auth0UserID = Empty

\* C1 (as stated): reconciling claims with an unknown subject id while the
\* table holds an unlinked user with the claims' normalized email links that
\* user: the login succeeds, the same row (same id) is afterwards the one row
\* found by the subject id, no second row for the email exists.
C1_LinksExistingUser ==
    \A p \in Procs : C1_Case(p) =>
        LET e == NewEmail(claims[p].email).value IN
        /\ out[p].error = ""
        /\ Cardinality(HoldingEmail(users, e)) = 1
        /\ \A x \in HoldingEmail(pre[p], e) :
                LinkedTo(users, claims[p].sub) = {y \in users : y.id = x.id}

\* C2's case: request q ran to its end before request p started, both with
\* the same claims and without faults, and the claims' subject id was already
\* linked to a row when q started (in the Provisional/Active build the
\* claims' email is well-formed and held by no other row)
C2_Case(p, q) ==
    /\ p # q /\ Finished(p) /\ q \in after[p] /\ claims[p] = claims[q]
    /\ TouchedRepo(p) /\ TouchedRepo(q) /\ ~Faulted(p) /\ ~Faulted(q)
    /\ LinkedTo(pre[q], claims[q].sub) # {}
    /\ build = "prov" =>
        /\ NewEmail(claims[q].email).ok
        /\ HoldingEmail(pre[q], NewEmail(claims[q].email).value)
                \subseteq LinkedTo(pre[q], claims[q].sub)

\* C2: reconciliation is idempotent for an already-linked user: run twice
\* with identical claims it leaves exactly one row for the subject id, and
\* the second run returns the user with the same id as the first.
C2_Idempotent ==
    \A p, q \in Procs : C2_Case(p, q) =>
        /\ out[q].error = "" /\ out[p].error = ""
        /\ out[p].session.uid = out[q].session.uid
        /\ Cardinality(LinkedTo(users, claims[p].sub)) = 1
        /\ \A x \in LinkedTo(pre[q], claims[q].sub) : out[p].session.uid = x.id

C2_Witness ==
    \E p, q \in Procs :
        /\ C2_Case(p, q) /\ build = "svc" /\ LoggedIn(p) /\ LoggedIn(q)
        /\ Has(p, "repo_write") /\ Has(q, "repo_write")

\* C3: a successful callback for claims whose subject id and email are
\* unknown to an empty table creates exactly one row carrying that email and
\* subject id, linked, and the session issued holds that row's id as uid and
\* the claims' subject id as sub.
C3_CreatesOneLinkedUser ==
    \A p \in Procs : (LoggedIn(p) /\ pre[p] = {} /\ Undisturbed(p)) =>
        \E x \in users :
            /\ users = {x}
            /\ x.auth0UserID = claims[p].sub /\ x.auth0UserID # Empty
            /\ x.email = NewEmail(claims[p].email).value
            /\ out[p].session.uid = x.id
            /\ out[p].session.sub = claims[p].sub
            /\ GetSession(cfg, out[p].cookie, now).err = "nil"
            /\ GetSession(cfg, out[p].cookie, now).data.uid = x.id
            /\ GetSession(cfg, out[p].cookie, now).data.sub = claims[p].sub

C3_Witness ==
    \E p \in Procs :
        /\ LoggedIn(p) /\ pre[p] = {} /\ Undisturbed(p) /\ build = "repo"
        /\ Has(p, "cookie_set") /\ Cardinality(users) = 1

\* C4: under every interleaving of concurrent reconciliations the table never
\* holds two rows linked to the same subject id, nor two rows with the same
\* email.
C4_NoDuplicates ==
    \A x, y \in users :
        x # y => /\ x.id # y.id
                 /\ x.email # y.email
                 /\ x.auth0UserID # Empty => x.auth0UserID # y.auth0UserID

\* two requests with one never-seen identity both reached the Save, each
\* having found nothing: one row was written, the other Save was refused
C4_Witness ==
    \E p, q \in Procs :
        /\ p # q /\ claims[p] = claims[q] /\ Finished(p) /\ Finished(q)
        /\ pre[p] = {} /\ pre[q] = {} /\ q \notin after[p] /\ p \notin after[q]
        /\ Has(p, "repo_write") /\ Has(q, "repo_write_conflict")
        /\ Cardinality(LinkedTo(users, claims[p].sub)) = 1

\* C5 (as stated): when the Save of a new account hits a uniqueness violation
\* because a concurrent request with the same identity created it first, the
\* reconciliation looks the user up again and returns the stored user: the
\* login succeeds with the id of the row the other request wrote.
C5_RetryAfterConflict ==
    \A p, q \in Procs :
        ( /\ p # q /\ claims[p] = claims[q] /\ Finished(p) /\ LoggedIn(q)
          /\ q \notin after[p] /\ LinkedTo(pre[p], claims[p].sub) = {}
          /\ Has(p, "repo_write_conflict") /\ ~Faulted(p) ) =>
        /\ out[p].error = ""
        /\ out[p].session.uid = out[q].session.uid

\* C6: the table is read or written only after the code exchange and then the
\* token verification succeeded, the cookie is set only after the
\* reconciliation succeeded, and a callback carrying the provider's error, or
\* whose exchange or verification fails, ends in an error redirect with no
\* row read or written and no cookie set.
C6_Ordered(p) ==
    \A i \in DOMAIN log[p] :
        /\ log[p][i] \in RepoEvents =>
            \E j, k \in 1..(i - 1) :
                j < k /\ log[p][j] = "exchange_ok" /\ log[p][k] = "verify_ok"
        /\ log[p][i] = "cookie_set" => \E j \in 1..(i - 1) : log[p][j] = "repo_write"
C6_Failed(p) ==
    \/ query[p].error # "" \/ Has(p, "exchange_failed") \/ Has(p, "verify_failed")
    \/ Has(p, "claims_failed")
C6_AuthenticateBeforeStorage ==
    /\ \A p \in Procs :
        /\ C6_Ordered(p)
        /\ out[p].cookie # NoCookie => Has(p, "cookie_set")
        /\ C6_Failed(p) =>
            /\ Finished(p) /\ out[p].sent /\ out[p].error # ""
            /\ ~TouchedRepo(p) /\ ~Has(p, "cookie_set") /\ out[p].cookie = NoCookie
    /\ (\A p \in Procs : ~Has(p, "repo_write")) => users \in InitialTables

C6_Witness ==
    \E p, q \in Procs :
        /\ Has(p, "verify_failed") /\ Finished(p) /\ out[p].error = "auth_failed"
        /\ Has(q, "cookie_set") /\ out[q].cookie # NoCookie
        /\ users \notin InitialTables

\* C7 (as stated): the state value is generated for the login request and
\* checked on the callback: a callback whose state is not one a login
\* generated never reaches the token exchange, and no cookie is set for it.
C7_StateChecked ==
    \A p \in Procs :
        (Has(p, "exchange_ok") \/ Has(p, "exchange_failed") \/ Has(p, "cookie_set"))
            => query[p].state \in pending

\* C8: a callback without a code and without a provider error ends in a
\* redirect with error=no_code, with no exchange attempted, no row read or
\* written and no cookie set.
C8_NoCode ==
    \A p \in Procs :
        (pc[p] # "idle" /\ query[p].code = "" /\ query[p].error = "") =>
            /\ Finished(p) /\ out[p].sent /\ out[p].error = "no_code"
            /\ log[p] = <<"redirect">>
            /\ out[p].cookie = NoCookie

C8_Witness ==
    \E p \in Procs :
        /\ Finished(p) /\ query[p].code = "" /\ query[p].error = ""
        /\ out[p].error = "no_code"


\* ------------------------------------------------------- the session store
\* SpecSession: one CookieStore, one browser.  The store issues cookies for
\* payloads, the clock advances, the cookie in the browser's jar may be
\* replaced by a forgery, and the store reads the jar.

\* SESSION_MAX_AGE (cookie_store.go:68): getEnvIntOrDefault takes any
\* integer, negative ones and 0 included; 2 is below and 5 above
\* securecookie's own maximum age
MaxAges == {-1, 0, 2, SecureCookieMaxAge + 2}

\* oauth2Token.Expiry, which callback_handler.go:79 puts into ExpiresAt
ProviderExpiry == 9
LongName == <<"L", "o", "n", "g", "e", "r", "N", "a", "m", "e">>
Payloads ==
    {SessionData(User0, Sub1, EmailA, NameA, NoTime),
     SessionData(User9, Sub2, EmailB, NameB, NoTime),
     SessionData(User0, Sub1, EmailA, LongName, NoTime),
     SessionData(User9, Sub2, EmailB, <<"B", "o", "b">>, ProviderExpiry)}

InitSession ==
    /\ build = "svc"
    /\ users = {}
    /\ now = 0
    /\ pending = {}
    /\ pc = [p \in Procs |-> "idle"]
    /\ query = [p \in Procs |-> NoQuery]
    /\ claims = [p \in Procs |-> NoClaims]
    /\ mem = [p \in Procs |-> NoUser]
    /\ pre = [p \in Procs |-> {}]
    /\ after = [p \in Procs |-> {}]
    /\ log = [p \in Procs |-> <<>>]
    /\ out = [p \in Procs |-> NoResponse]
    /\ cfg \in {Config("K1", "zen_session", m) : m \in MaxAges}
    /\ jar = NoCookie
    /\ got = [op |-> "none", cookie |-> NoCookie, at |-> NoTime,
              err |-> "nil", data |-> NoSession, input |-> NoSession,
              http |-> NoReply]
    /\ srv = Serving
    /\ Idle

\* the clock advances
Tick ==
    /\ now < MaxTime
    /\ now' = now + 1
    /\ UNCHANGED <<cfg, jar, got, srv>>
    /\ UNCHANGED reconVars
    /\ UNCHANGED domainVars

\* cookie_store.go:86-110 SetSession: on success the cookie is sent to the
\* browser, which keeps it unless its Max-Age is 0; got.input remembers the
\* payload of the cookie issued last
IssueSession ==
    /\ \E d \in Payloads :
        LET set == SetSession(cfg, d, now) IN
        /\ jar' = Stored(SetSessionReply(cfg, d, now), jar)
        /\ got' = [op |-> "set", cookie |-> set.cookie, at |-> now, err |-> set.err,
                   data |-> d,
                   input |-> IF set.err = "nil" THEN d ELSE got.input,
                   http |-> SetSessionReply(cfg, d, now)]
    /\ UNCHANGED <<now, cfg, srv>>
    /\ UNCHANGED reconVars
    /\ UNCHANGED domainVars

\* What somebody without the secret can make of a cookie of the store: the
\* expiry in the value pushed back, the timestamp renewed, the value
\* authenticated under another key, or under another cookie name, or a
\* character of the text replaced by one that is not base64.
Forgeries(c, cookie, t) ==
    {CookieValue(cookie.ts, [cookie.value EXCEPT !.exp = @ + 1], cookie.mac, "tampered"),
     CookieValue(cookie.ts, [cookie.value EXCEPT !.exp = 0], cookie.mac, "tampered"),
     CookieValue(cookie.ts, [cookie.value EXCEPT !.uid = User9], cookie.mac, "tampered"),
     CookieValue(cookie.ts, [cookie.value EXCEPT !.whole = FALSE], cookie.mac, "tampered"),
     CookieValue(cookie.ts, cookie.value,
                 Mac(c.secret, c.cookieName, cookie.ts,
                     [cookie.value EXCEPT !.exp = @ + 1]), "tampered"),
     CookieValue(t, cookie.value, cookie.mac, "tampered"),
     CookieValue(cookie.ts, cookie.value,
                 Mac("K2", c.cookieName, cookie.ts, cookie.value), "foreign"),
     CookieValue(cookie.ts, cookie.value,
                 Mac(c.secret, "other", cookie.ts, cookie.value), "foreign"),
     [cookie EXCEPT !.b64 = FALSE, !.origin = "garbled"]}

\* the same text with an unused bit of its last character set: another
\* cookie text, which Base64Decode turns into the same bytes
Repadded(cookie) == [cookie EXCEPT !.slack = 1, !.origin = "repadded"]

Forge ==
    /\ jar.origin = "store"
    /\ \/ jar' \in {f \in Forgeries(cfg, jar, now) :
                    <<f.ts, f.value, f.mac, f.b64>> # <<jar.ts, jar.value, jar.mac, jar.b64>>}
       \/ HasSlack(jar) /\ jar' = Repadded(jar)
    /\ UNCHANGED <<now, cfg, got, srv>>
    /\ UNCHANGED reconVars
    /\ UNCHANGED domainVars

\* cookie_store.go:113-133 GetSession on the cookie the browser presents
ReadSession ==
    /\ LET r == GetSession(cfg, jar, now) IN
        got' = [op |-> "get", cookie |-> jar, at |-> now, err |-> r.err,
                data |-> r.data, input |-> got.input, http |-> NoReply]
    /\ UNCHANGED <<now, cfg, jar, srv>>
    /\ UNCHANGED reconVars
    /\ UNCHANGED domainVars

\* a request with the browser's cookie to a route behind RequireAuth
\* (main.go:186-213), behind OptionalAuth, or to /auth/me (routes.go:48);
\* the browser stores the cookie of a Set-Cookie header
Request ==
    /\ \E route \in Routes :
        LET r == GetSession(cfg, jar, now)
            reply == Handle(route, cfg, jar, now)
        IN  /\ got' = [op |-> route, cookie |-> jar, at |-> now, err |-> r.err,
                       data |-> r.data, input |-> got.input, http |-> reply]
            /\ jar' = Stored(reply, jar)
    /\ UNCHANGED <<now, cfg, srv>>
    /\ UNCHANGED reconVars
    /\ UNCHANGED domainVars

\* GET /auth/logout (routes.go:47) with the browser's cookie
RequestLogout ==
    /\ LET r == GetSession(cfg, jar, now)
           reply == Logout(cfg, jar, now)
       IN  /\ got' = [op |-> "logout", cookie |-> jar, at |-> now, err |-> r.err,
                      data |-> r.data, input |-> got.input, http |-> reply]
           /\ jar' = Stored(reply, jar)
    /\ UNCHANGED <<now, cfg, srv>>
    /\ UNCHANGED reconVars
    /\ UNCHANGED domainVars

NextSession == Tick \/ IssueSession \/ Forge \/ ReadSession \/ Request \/ RequestLogout

SpecSession == InitSession /\ [][NextSession]_vars

\* the cookie read was made by this store and securecookie still takes it:
\* its timestamp is no older than securecookie's maximum age
C9_Read == got.op = "get" /\ got.cookie # NoCookie
\* (a value re-padded in its unused base64 bits carries the store's signed
\* text unchanged)
C9_Authentic == got.cookie.origin \in {"store", "repadded"}
C9_Fresh == got.at - got.cookie.ts <= SecureCookieMaxAge

\* C9 (amended): GetSession accepts a cookie exactly when the cookie
\* authenticates (it was issued by this store under its secret and cookie
\* name, and is within securecookie's maximum age) and the current time is
\* not after the expiry stored in it; at exactly the expiry the cookie is
\* still accepted, one instant later it is rejected.
C9_AcceptsUntilExpiry ==
    /\ C9_Read =>
        (got.err = "nil" <=>
            (C9_Authentic /\ C9_Fresh /\ got.at <= got.cookie.value.exp))
    /\ (got.op = "get" /\ got.cookie = NoCookie) => got.err = "not_found"

\* a cookie read exactly at its expiry, and accepted
C9_Witness ==
    /\ C9_Read /\ C9_Authentic /\ C9_Fresh
    /\ got.at = got.cookie.value.exp /\ got.err = "nil"

\* C9 (as stated): GetSession accepts a cookie if and only if it
\* authenticates and the current time is strictly before the expiry.
C9_StrictlyBeforeExpiry ==
    C9_Read =>
        (got.err = "nil" <=> (C9_Authentic /\ got.at < got.cookie.value.exp))

\* the payload's four strings came back as they went in
C10_Same(a, b) == a.uid = b.uid /\ a.sub = b.sub /\ a.email = b.email /\ a.name = b.name
\* C10 (as stated): for every payload, decoding the cookie produced by
\* encoding it, before its expiry, yields the same uid, sub, email and name.
C10_EveryPayload ==
    (C9_Read /\ C9_Authentic /\ got.at < got.cookie.value.exp) =>
        (got.err = "nil" /\ C10_Same(got.data, got.input))


\* C11 (as stated): GetSession never returns a payload for a cookie value
\* that SetSession did not produce under the same secret: a value issued
\* under another secret, or an issued value with any part altered or
\* truncated, is rejected with a decode error, whatever expiry it claims.
C11_OnlyIssuedValues ==
    (C9_Read /\ got.cookie.origin # "store") =>
        (got.err = "decode" /\ got.data = NoSession)

\* C12 (as stated): every cookie SetSession issues carries expiry = issuance
\* time + configured max-age whatever ExpiresAt the caller passed, and its
\* Max-Age attribute is the configured max-age.
C12_ExpiryAndMaxAge ==
    (got.op = "set" /\ got.err = "nil") =>
        /\ got.cookie.value.exp = got.at + cfg.maxAge
        /\ got.http.setCookie = got.cookie
        /\ got.http.attr = [present |-> TRUE, seconds |-> cfg.maxAge]

\* C13 (as stated): the cookie value SetSession issues discloses nothing about
\* the payload to a party without the secret: what such a party reads in it
\* is the same whatever the user id, subject id, email and name.
C13_NothingDisclosed ==
    (got.op = "set" /\ got.err = "nil") => PublicView(got.cookie) = Sealed

\* a request went through a route of the session layer
C14_Asked(route) == got.op = route
C14_Valid == GetSession(cfg, got.cookie, got.at).err = "nil"

\* C14: RequireAuth invokes the downstream handler exactly once when the
\* request's cookie validates, with the session's user id, subject id, email
\* and name in the request context; otherwise it answers 401 and does not
\* invoke the downstream handler.
C14_RequireAuth ==
    C14_Asked("protected") =>
        IF C14_Valid
        THEN /\ got.http.calls = 1
             /\ got.http.ctx.set
             /\ got.http.ctx.session = got.data
             /\ got.http.ctx.user_id = got.cookie.value.uid
             /\ got.http.ctx.auth0_user_id = got.cookie.value.sub
             /\ got.http.ctx.user_email = got.cookie.value.email
             /\ got.http.ctx.user_name = got.cookie.value.name
        ELSE /\ got.http.status = 401
             /\ got.http.calls = 0
             /\ ~got.http.ctx.set

C14_Witness ==
    /\ C14_Asked("protected") /\ C14_Valid /\ got.http.calls = 1
    /\ got.http.ctx.user_id = got.input.uid /\ got.input.uid # Empty

\* C15: validating a session never extends it: a request through RequireAuth,
\* OptionalAuth or /auth/me sets no cookie, the browser's cookie changes only
\* when SetSession issues one (or the client replaces it by a value of its
\* own), and an issued cookie is refused on every request made after its
\* issuance time + max-age.
C15_NoSetCookie ==
    got.op \in Routes =>
        /\ got.http.setCookie = NoCookie /\ ~got.http.attr.present
        /\ (got.cookie.origin = "store" /\ got.at > got.cookie.ts + cfg.maxAge) =>
            /\ got.err # "nil"
            /\ got.op \in {"protected", "me"} => got.http.status = 401
            /\ got.op = "optional" => ~got.http.ctx.set
C15_JarStep ==
    (jar' # jar /\ jar'.origin = "store") =>
        /\ got'.op = "set" /\ got'.cookie = jar'
        /\ jar'.ts = now /\ jar'.value.exp = now + cfg.maxAge
C15_NeverExtended == [](C15_NoSetCookie) /\ [][C15_JarStep]_vars

\* a cookie validated at one time and refused, unchanged, later
C15_Witness ==
    /\ got.op \in Routes /\ got.cookie.origin = "store" /\ got.cookie = jar
    /\ got.at > got.cookie.value.exp /\ got.err = "expired"
    /\ got.cookie.value.exp = got.cookie.ts + cfg.maxAge /\ cfg.maxAge > 0

\* the three ways a session is refused
C16_Missing == got.cookie = NoCookie
C16_Tampered == got.cookie # NoCookie /\ got.cookie.origin \notin {"store", "repadded"}
C16_Expired ==
    /\ got.cookie.origin \in {"store", "repadded"}
    /\ got.at > got.cookie.value.exp

\* C16: on a route behind RequireAuth or on /auth/me the response (status 401
\* and body) is the same whether the cookie is missing, tampered or expired,
\* while the error GetSession returns differs between the tampered and the
\* expired case.
C16_SameAnswer ==
    (got.op \in {"protected", "me"} /\ (C16_Missing \/ C16_Tampered \/ C16_Expired)) =>
        /\ got.http = Reply(401,
                            Body(IF got.op = "me" THEN "User not authenticated"
                                 ELSE "Authentication required", NoSession, FALSE),
                            0, NoCtx, NoCookie, NoAttr, got.http.msg)
        /\ C16_Missing => got.err = "not_found"
        /\ C16_Tampered =>
            got.http.msg \in {<<"failed to decode session", "the value is not valid">>,
                              <<"failed to decode session", "base64 decode failed">>}
        /\ C16_Expired =>
            got.http.msg \in {<<"session has expired">>,
                              <<"failed to decode session", "expired timestamp">>}

C16_Witness ==
    /\ got.op = "protected" /\ C16_Expired /\ got.http.status = 401
    /\ got.http.msg = <<"session has expired">>

\* ----------------------------------------------------------------- startup
\* main() (cmd/zen-connect/main.go:28-270): the process reads its
\* environment, builds its parts one after another, and only then starts the
\* HTTP server.  Every failed step ends the process through a Fatal log call
\* (os.Exit(1)).

\* requests answered by a listening server that the model follows
MaxServed == 2

\* getEnvIntOrDefault("SESSION_MAX_AGE", 86400) (cookie_store.go:68)
DefaultMaxAge == 86400
DefaultCookieName == "zen_session"

DigitValue(ch) ==
    CASE ch = "0" -> 0 [] ch = "1" -> 1 [] ch = "2" -> 2 [] ch = "3" -> 3
      [] ch = "4" -> 4 [] ch = "5" -> 5 [] ch = "6" -> 6 [] ch = "7" -> 7
      [] ch = "8" -> 8 [] ch = "9" -> 9 [] OTHER -> -1

RECURSIVE DigitsValue(_, _)
\* the value of a string of decimal digits, -1 if it is not one
DigitsValue(str, acc) ==
    IF str = Empty THEN acc
    ELSE IF DigitValue(Head(str)) < 0 THEN -1
    ELSE DigitsValue(Tail(str), 10 * acc + DigitValue(Head(str)))

\* strconv.Atoi: an optional sign and at least one decimal digit
Atoi(str) ==
    LET signed == str # Empty /\ Head(str) \in {"+", "-"}
        digits == IF signed THEN Tail(str) ELSE str
        n == DigitsValue(digits, 0)
    IN  IF digits = Empty \/ n < 0 THEN [ok |-> FALSE, n |-> 0]
        ELSE [ok |-> TRUE, n |-> IF signed /\ Head(str) = "-" THEN 0 - n ELSE n]

getEnvIntOrDefault(value, defaultValue) ==
    IF value # Empty /\ Atoi(value).ok THEN Atoi(value).n ELSE defaultValue

NoStore == Config(Empty, Empty, 0)

\* mutation: any secret of at least 32 bytes is taken
NewCookieStore_AtLeast(secretKey, maxAgeEnv) ==
    IF secretKey = Empty
    THEN [err |-> "SESSION_SECRET environment variable is required",
          store |-> NoStore]
    ELSE IF Len(secretKey) < SecretKeyLength
    THEN [err |-> "SESSION_SECRET must be exactly 32 bytes", store |-> NoStore]
    ELSE [err |-> "nil",
          store |-> Config(secretKey, DefaultCookieName,
                           getEnvIntOrDefault(maxAgeEnv, DefaultMaxAge))]

\* NewCookieStore (cookie_store.go:36-83) for the environment's
\* SESSION_SECRET and SESSION_MAX_AGE
NewCookieStore(secretKey, maxAgeEnv) ==
    IF secretKey = Empty
    THEN [err |-> "SESSION_SECRET environment variable is required",
          store |-> NoStore]
    ELSE IF Len(secretKey) # SecretKeyLength
    THEN [err |-> "SESSION_SECRET must be exactly 32 bytes", store |-> NoStore]
    ELSE [err |-> "nil",
          store |-> Config(secretKey, DefaultCookieName,
                           getEnvIntOrDefault(maxAgeEnv, DefaultMaxAge))]

\* SESSION_SECRET: unset, one byte, one byte short, right, one byte long
\* (the value of the example environment file has 33 bytes)
Secrets ==
    {SecretOfLength(n) : n \in {0, 1, SecretKeyLength - 1, SecretKeyLength,
                                SecretKeyLength + 1}}
\* SESSION_MAX_AGE: unset, a number, a negative number, not a number
MaxAgeEnvs == {Empty, <<"2">>, <<"-", "1">>, <<"1", "d">>}

InitStartup ==
    /\ build = "svc"
    /\ users = {}
    /\ now = 0
    /\ pending = {}
    /\ pc = [p \in Procs |-> "idle"]
    /\ query = [p \in Procs |-> NoQuery]
    /\ claims = [p \in Procs |-> NoClaims]
    /\ mem = [p \in Procs |-> NoUser]
    /\ pre = [p \in Procs |-> {}]
    /\ after = [p \in Procs |-> {}]
    /\ log = [p \in Procs |-> <<>>]
    /\ out = [p \in Procs |-> NoResponse]
    /\ cfg = NoStore
    /\ jar = NoCookie
    /\ got = [op |-> "none", cookie |-> NoCookie, at |-> NoTime,
              err |-> "nil", data |-> NoSession, input |-> NoSession,
              http |-> NoReply]
    /\ srv \in {Server("logger", s, m, 0, "") : s \in Secrets, m \in MaxAgeEnvs}
    /\ Idle

\* logger.Fatal / log.Fatal: the message is written and the process exits
Fatal(message) ==
    srv' = [srv EXCEPT !.phase = "exited", !.fatal = message]

\* a step of main() that depends on the outside world: it succeeds and
\* main() goes on, or it fails and main() ends the process
Outside(next, message) ==
    /\ \/ srv' = [srv EXCEPT !.phase = next]
       \/ Fatal(message)
    /\ UNCHANGED <<now, cfg, jar, got>>
    /\ UNCHANGED reconVars
    /\ UNCHANGED domainVars

\* main.go:35-39
InitLogger ==
    /\ srv.phase = "logger"
    /\ Outside("postgres", "Failed to initialize logger:")

\* main.go:52-55
InitPostgres ==
    /\ srv.phase = "postgres"
    /\ Outside("session", "Failed to create PostgreSQL client")

\* main.go:68-71
InitSessionStore ==
    /\ srv.phase = "session"
    /\ LET made == NewCookieStore(srv.secret, srv.maxAgeEnv)
       IN  IF made.err # "nil"
           THEN /\ Fatal("Failed to create session store")
                /\ cfg' = cfg
           ELSE /\ srv' = [srv EXCEPT !.phase = "auth0"]
                /\ cfg' = made.store
    /\ UNCHANGED <<now, jar, got>>
    /\ UNCHANGED reconVars
    /\ UNCHANGED domainVars

\* main.go:76-79
InitAuth0Config ==
    /\ srv.phase = "auth0"
    /\ Outside("oidc", "Failed to create Auth0 config")

\* main.go:87-90
InitProvider ==
    /\ srv.phase = "oidc"
    /\ Outside("authsvc", "Failed to create OIDC provider")

\* main.go:95-98; the routes are set up after it (main.go:103-239)
InitAuthService ==
    /\ srv.phase = "authsvc"
    /\ Outside("routes", "Failed to create Auth0 service")

\* main.go:242-253: the goroutine calls e.Start(":8080")
Listen ==
    /\ srv.phase = "routes"
    /\ srv' = [srv EXCEPT !.phase = "listening"]
    /\ UNCHANGED <<now, cfg, jar, got>>
    /\ UNCHANGED reconVars
    /\ UNCHANGED domainVars

\* the listening server answers a request
Serve ==
    /\ srv.phase = "listening"
    /\ srv.served < MaxServed
    /\ srv' = [srv EXCEPT !.served = @ + 1]
    /\ UNCHANGED <<now, cfg, jar, got>>
    /\ UNCHANGED reconVars
    /\ UNCHANGED domainVars

\* main.go:256-269: a signal arrives, possibly before the goroutine has
\* started the server; e.Shutdown succeeds or ends in logger.Fatal
Shutdown ==
    /\ srv.phase \in {"routes", "listening"}
    /\ \/ srv' = [srv EXCEPT !.phase = "stopped"]
       \/ Fatal("Server forced to shutdown")
    /\ UNCHANGED <<now, cfg, jar, got>>
    /\ UNCHANGED reconVars
    /\ UNCHANGED domainVars

NextStartup ==
    \/ InitLogger \/ InitPostgres \/ InitSessionStore \/ InitAuth0Config
    \/ InitProvider \/ InitAuthService \/ Listen \/ Serve \/ Shutdown

SpecStartup == InitStartup /\ [][NextStartup]_vars

\* main() runs its startup steps one after another: each call returns
SpecStartupFair ==
    /\ SpecStartup
    /\ WF_vars(InitLogger) /\ WF_vars(InitPostgres) /\ WF_vars(InitSessionStore)

C17_BadSecret == srv.secret = Empty \/ Len(srv.secret) # SecretKeyLength
C17_PastStore == srv.phase \notin {"logger", "postgres", "session"}
C17_Served == srv.phase = "listening" \/ srv.served > 0

C17_StoreRefuses ==
    /\ \A s \in Secrets, m \in MaxAgeEnvs :
          (s = Empty \/ Len(s) # SecretKeyLength)
              <=> NewCookieStore(s, m).err # "nil"
    /\ C17_BadSecret => ~C17_Served /\ cfg = NoStore
    /\ (C17_BadSecret /\ C17_PastStore) =>
          /\ srv.phase = "exited"
          /\ srv.fatal \in {"Failed to initialize logger:",
                            "Failed to create PostgreSQL client",
                            "Failed to create session store"}
    /\ C17_Served => cfg.secret = srv.secret /\ Len(cfg.secret) = SecretKeyLength

\* C17: when SESSION_SECRET is missing or its length is not exactly 32
\* bytes, NewCookieStore returns an error, the process ends at that step
\* (or at an earlier one) and does end, and the HTTP server never listens
\* or answers a request; a process that listens holds a store built from a
\* 32-byte secret.
C17_SecretOrNoServer ==
    /\ [](C17_StoreRefuses)
    /\ (C17_BadSecret ~> srv.phase = "exited")

\* the process was given a secret one byte too long (as in the example
\* environment file), got as far as the session store, and ended there
C17_Witness ==
    /\ Len(srv.secret) = SecretKeyLength + 1
    /\ srv.phase = "exited"
    /\ srv.fatal = "Failed to create session store"
    /\ srv.served = 0

\* --------------------------------------- reconciliation of a linked user
\* C18's case: a finished, successful, undisturbed, fault-free reconciliation
\* of claims whose subject id a row carried when it began
C18_Case(p) ==
    /\ LoggedIn(p) /\ Has(p, "repo_write") /\ ~Faulted(p) /\ Undisturbed(p)
    /\ LinkedTo(pre[p], claims[p].sub) # {}

\* C18 (as stated): after reconciling claims for a user already linked to
\* the claims' subject id, the stored user's display name and picture URL
\* equal the claims' values whenever they differed, and the stored user is
\* email-verified if the claims assert it or if it was verified before.
C18_BroughtUpToDate ==
    \A p \in Procs : C18_Case(p) =>
        \A x \in LinkedTo(pre[p], claims[p].sub) :
            \E y \in users :
                /\ y.id = x.id
                /\ y.displayName = claims[p].name
                /\ y.profileImageURL = claims[p].picture
                /\ (claims[p].emailVerified \/ x.emailVerified) => y.emailVerified

\* ------------------------------------------------- a failing first lookup
ReadEvents == {"repo_read", "repo_read_fault"}
WriteEvents == {"repo_write", "repo_write_conflict", "repo_write_fault"}
\* the request's first repository call, the lookup by subject id, met a
\* transport failure
C19_SubLookupFaulted(p) ==
    \E i \in DOMAIN log[p] :
        /\ log[p][i] = "repo_read_fault"
        /\ \A j \in 1..(i - 1) : log[p][j] \notin ReadEvents
\* the request's lookup by subject id ran and no row carried the subject id
C19_SubLookupMissed(p) ==
    /\ \E i \in DOMAIN log[p] : log[p][i] \in ReadEvents
    /\ ~C19_SubLookupFaulted(p)
    /\ LinkedTo(pre[p], claims[p].sub) = {}

\* C19 (as stated), for the two builds over the PostgresUserRepository of
\* unnamed/part_004: when the lookup by subject id fails with an
\* error other than not-found, reconciliation returns an error and neither
\* creates nor saves; and the repository reports a missing row as the
\* not-found error.
C19_OnlyNotFoundGoesOn ==
    \A p \in Procs : build \in {"svc", "repo"} =>
        /\ C19_SubLookupFaulted(p) =>
              /\ Finished(p) /\ out[p].error = "auth_failed"
              /\ \A i \in DOMAIN log[p] : log[p][i] \notin WriteEvents
        /\ C19_SubLookupMissed(p) =>
              RepoFindByAuth0UserID(pre[p], claims[p].sub, FALSE).err
                  = "ErrUserNotFound"

\* ------------------------------------------------------ linked and unlinked
\* part_006:149-150, 166-167 IsProvisional / IsActive, and for the flat User
\* of part_007 the subject id it always carries
IsProvisional(u) == u.kind = "provisional"
IsActive(u) == u.kind \in {"active", "user"}

\* the aggregates a request can hold of a stored row, after any one of the
\* aggregate operations
C20_Operated(a, t) ==
    {a, ActiveUpdateProfile(a, NameB, Bio1, Pic1, t), ActiveUpdateEmail(a, EmailB, t),
     ActiveVerifyEmail(a, t), ClearEvents(a)}
C20_OperatedFlat(u, t) ==
    {u, UpdateProfile(u, NameB, Bio1, Pic1, t), VerifyEmail(u, t), ClearEvents(u)}

\* a stored row is restored as exactly one of the two kinds, by its subject
\* id; no aggregate operation on a linked user touches the subject id or the
\* kind; activation of an unlinked one keeps id, email and createdAt
C20_OneKind ==
    /\ \A x \in users :
        LET v == FromSnapshotVariant(x) IN
        /\ IsProvisional(v) # IsActive(v)
        /\ IsActive(v) <=> x.auth0UserID # Empty
        /\ IsActive(v) =>
              \A a \in C20_Operated(v, now) :
                  IsActive(a) /\ a.auth0UserID = x.auth0UserID /\ a.id = x.id
        /\ (x.auth0UserID # Empty /\ FromSnapshot(x).ok) =>
              \A u \in C20_OperatedFlat(FromSnapshot(x).user, now) :
                  IsActive(u) /\ u.auth0UserID = x.auth0UserID /\ u.id = x.id
        /\ IsProvisional(v) =>
              \A sub \in {Sub1, Sub2} :
                  LET a == ActivateUser(v, sub, NameB, TRUE, now) IN
                  /\ IsActive(a) /\ a.auth0UserID = sub
                  /\ a.id = x.id /\ a.email = x.email /\ a.createdAt = x.createdAt
    /\ \A p \in Procs :
          mem[p] # NoUser => (IsProvisional(mem[p]) # IsActive(mem[p]))
    /\ \A p \in Procs :
          (mem[p] # NoUser /\ pc[p] = "save") =>
              IsActive(mem[p]) /\ mem[p].auth0UserID = claims[p].sub

\* a step of the table: no row disappears or changes its id or createdAt, a
\* linked row keeps its subject id, a row that becomes linked keeps its email
C20_TableStep ==
    \A x \in users :
        \E y \in users' :
            /\ y.id = x.id /\ y.createdAt = x.createdAt
            /\ x.auth0UserID # Empty => y.auth0UserID = x.auth0UserID
            /\ (x.auth0UserID = Empty /\ y.auth0UserID # Empty) => y.email = x.email

\* C20: a user is at every moment either unlinked (provisional) or linked
\* (active), never both; the only transition is unlinked to linked and it
\* keeps the user's id, email and createdAt; once a user is linked, neither
\* the aggregate operations (UpdateProfile, UpdateEmail, VerifyEmail,
\* ClearEvents) nor a reconciliation clears or changes its subject id.
C20_LinkedForGood == [](C20_OneKind) /\ [][C20_TableStep]_vars

\* in the Provisional/Active build a reconciliation rewrote the row of a
\* linked user, which kept its id and its subject id
C20_Witness ==
    /\ build = "prov"
    /\ \E p \in Procs :
        /\ LoggedIn(p) /\ Has(p, "repo_write")
        /\ \E x \in LinkedTo(pre[p], claims[p].sub) :
            \E y \in users :
                y.id = x.id /\ y.auth0UserID = x.auth0UserID /\ y # x

\* ---------------------------------------------------- the domain layer alone
\* A caller holds one aggregate and calls its methods one after another; it
\* may save the aggregate through the repository and load it again.  The
\* aggregate is a flat User (unnamed/part_007), a ProvisionalUser or
\* ActiveUser (unnamed/part_006), an UnverifiedUser or VerifiedUser
\* (internal/user/domain/user.go) or an Experience
\* (internal/experience/domain/experience.go).

\* events an aggregate buffers before the model stops adding to it
MaxEvents == 3
\* the clock of the domain layer's caller stops here
MaxAggTime == 2

\* part_006:80 NewProvisionalUser
NewProvisionalUser(id, email, t) ==
    Aggregate("provisional", id, Empty, email, Empty, Empty, Empty, FALSE,
              t, NoTime, NoTime, <<"UserRegistered">>)

\* user.go:9-29 UnverifiedUser / VerifiedUser
PasswordUser(kind, id, email, passwordHash, createdAt, verifiedAt, events) ==
    [kind |-> kind, id |-> id, email |-> email, passwordHash |-> passwordHash,
     createdAt |-> createdAt, verifiedAt |-> verifiedAt, events |-> events]

\* user.go:51 NewUnverifiedUser
NewUnverifiedUser(id, email, passwordHash, t) ==
    PasswordUser("unverified", id, email, passwordHash, t, NoTime, <<"UserRegistered">>)

\* user.go:73 (u *UnverifiedUser) VerifyEmail
UnverifiedVerifyEmail(u, t) ==
    PasswordUser("verified", u.id, u.email, u.passwordHash, u.createdAt, t,
                 Append(u.events, "EmailVerified"))

\* user.go:103, 132 ChangePassword
ChangePassword(u, passwordHash) ==
    [u EXCEPT !.passwordHash = passwordHash, !.events = Append(@, "PasswordChanged")]

\* user.go:158 FromSnapshot
FromSnapshotPassword(id, email, passwordHash, emailVerified, createdAt, verifiedAt) ==
    IF emailVerified /\ verifiedAt # NoTime
    THEN PasswordUser("verified", id, email, passwordHash, createdAt, verifiedAt, <<>>)
    ELSE PasswordUser("unverified", id, email, passwordHash, createdAt, NoTime, <<>>)

\* experience.go:12 Experience
Experience(id, userID, content, isPublic, createdAt, updatedAt, events) ==
    [kind |-> "experience", id |-> id, userID |-> userID, content |-> content,
     isPublic |-> isPublic, createdAt |-> createdAt, updatedAt |-> updatedAt,
     events |-> events]

NilContent == "nil"

\* experience.go:29 NewExperience
NewExperience(id, userID, content, t) ==
    Experience(id, userID, content, FALSE, t, t, <<"ExperienceCreated">>)

\* experience.go:109 MakePublic
MakePublic(e, t) ==
    IF ~e.isPublic
    THEN [e EXCEPT !.isPublic = TRUE, !.updatedAt = t,
                   !.events = Append(@, "ExperienceVisibilityChanged")]
    ELSE e

\* experience.go:118 MakePrivate
MakePrivate(e, t) ==
    IF e.isPublic
    THEN [e EXCEPT !.isPublic = FALSE, !.updatedAt = t,
                   !.events = Append(@, "ExperienceVisibilityChanged")]
    ELSE e

\* experience.go:127 UpdateContent
UpdateContent(e, content, t) ==
    IF content # NilContent
    THEN [e EXCEPT !.content = content, !.updatedAt = t,
                   !.events = Append(@, "ExperienceUpdated")]
    ELSE e

\* experience.go:141 FromSnapshot
FromSnapshotExperience(id, userID, content, isPublic, createdAt, updatedAt) ==
    Experience(id, userID, content, isPublic, createdAt, updatedAt, <<>>)

\* what the caller passes to UpdateProfile: new values, and the values a
\* user created or restored here already has
ProfileInputs ==
    {Args(Empty, Empty, NameB, Bio1, Pic1, FALSE),
     Args(Empty, Empty, NameA, Empty, Empty, FALSE)}

InitAggregate ==
    /\ build = "svc"
    /\ users = {}
    /\ now = 0
    /\ pending = {}
    /\ pc = [p \in Procs |-> "idle"]
    /\ query = [p \in Procs |-> NoQuery]
    /\ claims = [p \in Procs |-> NoClaims]
    /\ mem = [p \in Procs |-> NoUser]
    /\ pre = [p \in Procs |-> {}]
    /\ after = [p \in Procs |-> {}]
    /\ log = [p \in Procs |-> <<>>]
    /\ out = [p \in Procs |-> NoResponse]
    /\ cfg = Config("K1", "zen_session", 2)
    /\ jar = NoCookie
    /\ got = [op |-> "none", cookie |-> NoCookie, at |-> NoTime,
              err |-> "nil", data |-> NoSession, input |-> NoSession,
              http |-> NoReply]
    /\ srv = Serving
    /\ Idle

\* a call on the held aggregate that touches nothing else
Held(op, args, next) ==
    /\ agg' = next
    /\ last' = Call(op, args, now, agg)
    /\ UNCHANGED <<now, users, uow, reg>>
    /\ UNCHANGED reconVars
    /\ UNCHANGED sessionVars

Room == Len(agg.events) < MaxEvents

\* time passes between two calls
AggTick ==
    /\ now < MaxAggTime
    /\ now' = now + 1
    /\ UNCHANGED <<users, agg, last, uow, reg>>
    /\ UNCHANGED <<build, pending, pc, query, claims, mem, pre, after, log, out>>
    /\ UNCHANGED sessionVars

CallNewUser ==
    /\ agg = NoUser
    /\ \E v \in BOOLEAN :
        Held("NewUser", Args(Sub1, EmailA, NameA, Empty, Empty, v),
             NewUser(User0, Sub1, EmailA, NameA, v, now))

CallNewProvisionalUser ==
    /\ agg = NoUser
    /\ Held("NewProvisionalUser", Args(Empty, EmailA, Empty, Empty, Empty, FALSE),
            NewProvisionalUser(User0, EmailA, now))

CallNewActiveUser ==
    /\ agg = NoUser
    /\ \E v \in BOOLEAN :
        Held("NewActiveUser", Args(Sub1, EmailA, NameA, Empty, Empty, v),
             NewActiveUser(User0, Sub1, EmailA, NameA, v, now))

CallNewUnverifiedUser ==
    /\ agg = NoUser
    /\ Held("NewUnverifiedUser", Args(Empty, EmailA, Empty, Empty, Empty, FALSE),
            NewUnverifiedUser(User0, EmailA, "h1", now))

CallNewExperience ==
    /\ agg = NoUser
    /\ Held("NewExperience", NoArgs, NewExperience(User0, User9, "c1", now))

\* restoring an aggregate from persisted data: a linked or an unlinked row,
\* a password user, an experience
CallFromSnapshot ==
    /\ agg = NoUser
    /\ \/ \E row \in {LinkedRow, UnlinkedRow} :
            Held("FromSnapshot", NoArgs, FromSnapshotVariant(row))
       \/ \E v \in BOOLEAN, vt \in {NoTime, 0} :
            Held("FromSnapshot", NoArgs,
                 FromSnapshotPassword(User0, EmailA, "h1", v, 0, vt))
       \/ \E pub \in BOOLEAN :
            Held("FromSnapshot", NoArgs,
                 FromSnapshotExperience(User0, User9, "c1", pub, 0, 0))

CallActivateUser ==
    /\ agg.kind = "provisional" /\ Room
    /\ \E v \in BOOLEAN :
        Held("ActivateUser", Args(Sub1, Empty, NameB, Empty, Empty, v),
             ActivateUser(agg, Sub1, NameB, v, now))

CallUpdateProfile ==
    /\ agg.kind \in {"user", "active"} /\ Room
    /\ \E a \in ProfileInputs :
        Held("UpdateProfile", a,
             IF agg.kind = "user"
             THEN UpdateProfile(agg, a.name, a.bio, a.picture, now)
             ELSE ActiveUpdateProfile(agg, a.name, a.bio, a.picture, now))

\* the caller changes one field of the profile that Profile() hands out
CallProfileUpdate ==
    /\ agg.kind = "active"
    /\ \/ Held("Profile.UpdateDisplayName", [NoArgs EXCEPT !.name = NameB],
               UpdateDisplayName(agg, NameB))
       \/ Held("Profile.UpdateBio", [NoArgs EXCEPT !.bio = Bio1],
               UpdateBio(agg, Bio1))
       \/ Held("Profile.UpdateProfileImageURL", [NoArgs EXCEPT !.picture = Pic1],
               UpdateProfileImageURL(agg, Pic1))

CallUpdateEmail ==
    /\ agg.kind = "active" /\ Room
    /\ Held("UpdateEmail", Args(Empty, EmailB, Empty, Empty, Empty, FALSE),
            ActiveUpdateEmail(agg, EmailB, now))

CallVerifyEmail ==
    /\ agg.kind \in {"user", "active", "unverified"} /\ Room
    /\ Held("VerifyEmail", NoArgs,
            CASE agg.kind = "user" -> VerifyEmail(agg, now)
              [] agg.kind = "active" -> ActiveVerifyEmail(agg, now)
              [] OTHER -> UnverifiedVerifyEmail(agg, now))

CallChangePassword ==
    /\ agg.kind \in {"unverified", "verified"} /\ Room
    /\ Held("ChangePassword", NoArgs, ChangePassword(agg, "h2"))

CallMakePublic ==
    /\ agg.kind = "experience" /\ Room
    /\ Held("MakePublic", NoArgs, MakePublic(agg, now))

CallMakePrivate ==
    /\ agg.kind = "experience" /\ Room
    /\ Held("MakePrivate", NoArgs, MakePrivate(agg, now))

CallUpdateContent ==
    /\ agg.kind = "experience" /\ Room
    /\ \E content \in {"c2", NilContent} :
        Held("UpdateContent", [NoArgs EXCEPT !.bio = content],
             UpdateContent(agg, content, now))

\* Events(): the caller reads the buffer
CallEvents ==
    /\ agg # NoUser
    /\ Held("Events", NoArgs, agg)

CallClearEvents ==
    /\ agg # NoUser
    /\ Held("ClearEvents", NoArgs, ClearEvents(agg))

\* part_004:25 Save of the held flat User
CallSave ==
    /\ agg.kind = "user"
    /\ users' = Save(users, agg, now, FALSE).rows
    /\ last' = Call("Save", NoArgs, now, agg)
    /\ UNCHANGED <<now, agg, uow, reg>>
    /\ UNCHANGED <<build, pending, pc, query, claims, mem, pre, after, log, out>>
    /\ UNCHANGED sessionVars

\* part_004:62 FindByID: the caller gets a new instance restored from the row
CallFindByID ==
    /\ agg.kind \in {"none", "user"}
    /\ \E row \in users :
        /\ FromSnapshot(row).ok
        /\ agg' = FromSnapshot(row).user
    /\ last' = Call("FindByID", NoArgs, now, agg)
    /\ UNCHANGED <<now, users, uow, reg>>
    /\ UNCHANGED reconVars
    /\ UNCHANGED sessionVars

NextAggregate ==
    \/ AggTick
    \/ CallNewUser \/ CallNewProvisionalUser \/ CallNewActiveUser
    \/ CallNewUnverifiedUser \/ CallNewExperience \/ CallFromSnapshot
    \/ CallActivateUser \/ CallUpdateProfile \/ CallProfileUpdate \/ CallUpdateEmail
    \/ CallVerifyEmail \/ CallChangePassword
    \/ CallMakePublic \/ CallMakePrivate \/ CallUpdateContent
    \/ CallEvents \/ CallClearEvents \/ CallSave \/ CallFindByID

SpecAggregate == InitAggregate /\ [][NextAggregate]_vars

\* ------------------------------------------------- claims on the aggregates
\* how often an event of this name stands in a buffer
Occurrences(events, name) ==
    Cardinality({i \in DOMAIN events : events[i] = name})

\* events the last call added to the buffer it found
Added(name) ==
    Occurrences(agg.events, name) - Occurrences(last.before.events, name)

\* C21 (as stated): ActivateUser on a not-yet-linked user appends an
\* EmailVerified event exactly when its emailVerified argument is true (then
\* exactly one, and verifiedAt is set) and appends none when it is false.
C21_VerifiedEventOnlyWhenVerified ==
    last.op = "ActivateUser" =>
        /\ Added("EmailVerified") = (IF last.args.verified THEN 1 ELSE 0)
        /\ (agg.verifiedAt # NoTime) <=> last.args.verified

\* C22: VerifyEmail on an unverified user sets emailVerified and verifiedAt
\* and appends exactly one EmailVerified event; on an already verified user
\* it changes nothing (verifiedAt, updatedAt and the buffer stay as they
\* were), so consecutive calls have the effect of one.
C22_VerifyEmailOnce ==
    (last.op = "VerifyEmail" /\ last.before.kind \in {"user", "active"}) =>
        IF last.before.emailVerified
        THEN agg = last.before
        ELSE /\ agg.emailVerified
             /\ agg.verifiedAt = last.at
             /\ agg.events = Append(last.before.events, "EmailVerified")

\* a second VerifyEmail, later than the one that verified the user
C22_Witness ==
    /\ last.op = "VerifyEmail"
    /\ last.before.kind = "user"
    /\ last.before.emailVerified
    /\ Occurrences(agg.events, "EmailVerified") = 1
    /\ agg.verifiedAt # NoTime
    /\ agg.verifiedAt < last.at

\* C23 (as stated): every UpdateProfile call on a user sets display name,
\* bio and image URL to the arguments, sets updatedAt to the call time and
\* appends exactly one UserProfileUpdated event, also when the new values
\* equal the old ones.
C23_ProfileUpdateRecorded ==
    last.op = "UpdateProfile" =>
        /\ agg.displayName = last.args.name
        /\ agg.bio = last.args.bio
        /\ agg.profileImageURL = last.args.picture
        /\ agg.updatedAt = last.at
        /\ agg.events = Append(last.before.events, "UserProfileUpdated")

\* an aggregate was restored from persisted data by the last call
C24_Restored == last.op \in {"FromSnapshot", "FindByID"}

\* a restored aggregate is saved by the very next call
C24_SavedAsLoaded ==
    (C24_Restored /\ last'.op = "Save") => agg'.events = <<>>

\* C24: an aggregate rebuilt by FromSnapshot (user or experience) has an
\* empty event buffer, so loading a user from storage and saving it again
\* without a mutation in between produces no domain event.
C24_RestoredSilently ==
    /\ [](C24_Restored => agg.events = <<>>)
    /\ [][C24_SavedAsLoaded]_vars

\* a stored user is loaded while the instance held so far has events pending
C24_Witness ==
    /\ last.op = "FindByID"
    /\ last.before.events # <<>>
    /\ agg.kind = "user"
    /\ agg.events = <<>>

\* the calls that work on the aggregate the caller already holds
C25_OnHeld ==
    last.op \in {"ActivateUser", "UpdateProfile", "UpdateEmail", "VerifyEmail",
                 "Profile.UpdateDisplayName", "Profile.UpdateBio",
                 "Profile.UpdateProfileImageURL",
                 "ChangePassword", "MakePublic", "MakePrivate", "UpdateContent",
                 "Events", "ClearEvents", "Save"}

\* the last call changed a field of the aggregate
C25_Mutated ==
    [agg EXCEPT !.events = <<>>] # [last.before EXCEPT !.events = <<>>]

\* the buffer before the last call is the beginning of the buffer after it
C25_Kept ==
    /\ Len(last.before.events) <= Len(agg.events)
    /\ SubSeq(agg.events, 1, Len(last.before.events)) = last.before.events

\* C25 (as stated): between two ClearEvents calls the buffer only grows:
\* every mutation appends its event at the end in call order, and no
\* operation other than ClearEvents (not Events(), not a repository Save)
\* removes or reorders buffered events; right after ClearEvents the buffer
\* is empty.
C25_BufferOnlyGrows ==
    C25_OnHeld =>
        IF last.op = "ClearEvents"
        THEN agg.events = <<>>
        ELSE /\ C25_Kept
             /\ C25_Mutated => Len(agg.events) = Len(last.before.events) + 1

\* emailVerified is true exactly when verifiedAt is set
C30_VerifiedHasTime ==
    agg.kind = "user" => (agg.emailVerified <=> agg.verifiedAt # NoTime)

\* UpdateProfile, VerifyEmail and ClearEvents keep a verified user verified,
\* with the verification time it has
C30_VerifiedStays ==
    (/\ agg.kind = "user" /\ agg.emailVerified
     /\ last' # last
     /\ last'.op \in {"UpdateProfile", "VerifyEmail", "ClearEvents"})
        => (agg'.emailVerified /\ agg'.verifiedAt = agg.verifiedAt)

\* C30: for every user created by NewUser and then changed by any sequence
\* of UpdateProfile, VerifyEmail and ClearEvents, emailVerified is true
\* exactly when verifiedAt is set, and once emailVerified is true it never
\* becomes false and verifiedAt never changes.
C30_VerifiedForGood == [](C30_VerifiedHasTime) /\ [][C30_VerifiedStays]_vars

\* created unverified, verified later, profile updated later still
C30_Witness ==
    /\ agg.kind = "user"
    /\ last.op = "UpdateProfile"
    /\ agg.emailVerified
    /\ agg.createdAt < agg.verifiedAt
    /\ agg.verifiedAt < agg.updatedAt

\* ------------------------------------- what a reconciliation leaves alone
\* C28 (as stated): reconciling claims for an already-linked user leaves
\* every field the claims do not carry unchanged: the stored user's id,
\* subject id, createdAt and bio after the reconciliation equal their values
\* before it.
C28_UncarriedFieldsKept ==
    \A p \in Procs : (build \in {"svc", "repo"} /\ C18_Case(p)) =>
        \A x \in LinkedTo(pre[p], claims[p].sub) :
            \E y \in users :
                /\ y.id = x.id
                /\ y.auth0UserID = x.auth0UserID
                /\ y.createdAt = x.createdAt
                /\ y.bio = x.bio

\* ------------------------------------------------------- the unit of work
\* internal/shared/uow/unit_of_work.go over a database and the in-memory
\* event bus of unnamed/part_010.  One unitOfWork is shared by the callers
\* of WithinTx; the function a call is given, and the handlers the bus runs,
\* collect events through CollectEvent.  uow.events has no lock: every read
\* and every store of the slice is a step of its own, so that an append can
\* store over what another caller stored since it read, and the events
\* passed to Publish can differ from those whose number was tested.

\* WithinTx calls on the one unit of work
MaxTx == 2
\* events the function of one WithinTx call collects; the handlers of its
\* Publish collect one more at most
MaxCollect == 1

\* the servers and the domain layer are not part of this
Quiet ==
    /\ build = "svc"
    /\ users = {}
    /\ now = 0
    /\ pending = {}
    /\ pc = [p \in Procs |-> "idle"]
    /\ query = [p \in Procs |-> NoQuery]
    /\ claims = [p \in Procs |-> NoClaims]
    /\ mem = [p \in Procs |-> NoUser]
    /\ pre = [p \in Procs |-> {}]
    /\ after = [p \in Procs |-> {}]
    /\ log = [p \in Procs |-> <<>>]
    /\ out = [p \in Procs |-> NoResponse]
    /\ cfg = Config("K1", "zen_session", 2)
    /\ jar = NoCookie
    /\ got = [op |-> "none", cookie |-> NoCookie, at |-> NoTime,
              err |-> "nil", data |-> NoSession, input |-> NoSession,
              http |-> NoReply]
    /\ srv = Serving
    /\ agg = NoUser
    /\ last = NoCall

\* goroutines that call WithinTx on the one unit of work
UowCallers == {"1", "2"}
\* EventName() of the events collected
EventNames == {"UserRegistered", "EmailVerified"}

\* the slice a CollectEvent call has read and not yet stored back
NoLoad == [held |-> FALSE, events |-> <<>>, name |-> ""]

\* unit_of_work.go:29 NewUnitOfWork over part_010:35 NewInMemoryEventBus,
\* with what the model records about them: `handlers` the event names a
\* handler is registered for, `calls` the WithinTx calls so far, `committed`
\* and `rolledBack` the calls whose transaction ended that way, `handed` the
\* events a handler was called with; for each caller the place its call has
\* reached, the number of its call, the events it collected, the slice its
\* running CollectEvent has read, the events it passed to Publish, how its function ended and what its call returned
NewUnitOfWork ==
    [events |-> <<>>, handlers |-> {}, calls |-> 0,
     committed |-> {}, rolledBack |-> {}, handed |-> <<>>,
     phase |-> [w \in UowCallers |-> "ready"],
     tx |-> [w \in UowCallers |-> 0],
     collected |-> [w \in UowCallers |-> 0],
     load |-> [w \in UowCallers |-> NoLoad],
     passed |-> [w \in UowCallers |-> <<>>],
     outcome |-> [w \in UowCallers |-> "none"],
     ret |-> [w \in UowCallers |-> "none"]]

InitUow == Quiet /\ uow = NewUnitOfWork /\ reg = NoReg

\* part_010:47 Publish: the events go, in order, to the handlers registered
\* for their names; an event without a handler is passed over.  `failAt` is
\* the position of the event whose handler ends the call (0: none does),
\* by returning an error or, with `panics`, by a panic.
\* [err, handed]: the events a handler was called with
Publish(events, handlers, failAt, panics) ==
    LET reached == IF failAt = 0 THEN events ELSE SubSeq(events, 1, failAt)
        HasHandler(e) == e.name \in handlers
    IN  [err |-> IF failAt = 0 THEN "nil" ELSE IF panics THEN "panic" ELSE "handler",
         handed |-> SelectSeq(reached, HasHandler)]

\* part_010:42 Register, while the bus is set up
Register ==
    /\ uow.calls = 0
    /\ \E name \in EventNames \ uow.handlers :
        uow' = [uow EXCEPT !.handlers = @ \cup {name}]
    /\ UNCHANGED <<reg, agg, last, now>>
    /\ UNCHANGED reconVars
    /\ UNCHANGED sessionVars

\* unit_of_work.go:39-42: BeginTx, and the return when it fails
BeginTx ==
    /\ uow.calls < MaxTx
    /\ \E w \in UowCallers, ok \in BOOLEAN :
        /\ uow.phase[w] = "ready"
        /\ uow' = IF ok
                  THEN [uow EXCEPT !.phase[w] = "in_fn", !.calls = @ + 1,
                                   !.tx[w] = uow.calls + 1, !.collected[w] = 0,
                                   !.passed[w] = <<>>, !.outcome[w] = "none",
                                   !.ret[w] = "none"]
                  ELSE [uow EXCEPT !.calls = @ + 1, !.tx[w] = uow.calls + 1,
                                   !.ret[w] = "begin_err"]
    /\ UNCHANGED <<reg, agg, last, now>>
    /\ UNCHANGED reconVars
    /\ UNCHANGED sessionVars

\* unit_of_work.go:78 CollectEvent, called by the function of a WithinTx
\* call or by a handler that Publish is running: uow.events is read
CollectEvent ==
    /\ \E w \in UowCallers, name \in EventNames :
        /\ ~uow.load[w].held
        /\ \/ uow.phase[w] = "in_fn" /\ uow.collected[w] < MaxCollect
           \/ /\ uow.phase[w] = "publish" /\ uow.collected[w] <= MaxCollect
              /\ \E i \in DOMAIN uow.passed[w] : uow.passed[w][i].name \in uow.handlers
        /\ uow' = [uow EXCEPT
                     !.load[w] = [held |-> TRUE, events |-> uow.events, name |-> name]]
    /\ UNCHANGED <<reg, agg, last, now>>
    /\ UNCHANGED reconVars
    /\ UNCHANGED sessionVars

\* unit_of_work.go:78 CollectEvent: the slice read, with the event appended,
\* is stored in uow.events, whatever uow.events holds by now
Appended ==
    /\ \E w \in UowCallers :
        /\ uow.load[w].held
        /\ uow' = [uow EXCEPT
                     !.events = Append(uow.load[w].events,
                                       [tx |-> uow.tx[w], k |-> uow.collected[w] + 1,
                                        name |-> uow.load[w].name]),
                     !.collected[w] = @ + 1,
                     !.load[w] = NoLoad]
    /\ UNCHANGED <<reg, agg, last, now>>
    /\ UNCHANGED reconVars
    /\ UNCHANGED sessionVars

\* unit_of_work.go:47-58: the function returns nil, returns an error or
\* panics
FnReturns ==
    /\ \E w \in UowCallers, outcome \in {"nil", "err", "panic"} :
        /\ uow.phase[w] = "in_fn" /\ ~uow.load[w].held
        /\ uow' = [uow EXCEPT !.outcome[w] = outcome,
                              !.phase[w] = IF outcome = "nil" THEN "commit"
                                           ELSE "rollback"]
    /\ UNCHANGED <<reg, agg, last, now>>
    /\ UNCHANGED reconVars
    /\ UNCHANGED sessionVars

\* unit_of_work.go:49-51, 56-57: tx.Rollback(), then the error is returned
\* or the panic goes on
Rollback ==
    /\ \E w \in UowCallers :
        /\ uow.phase[w] = "rollback"
        /\ uow' = [uow EXCEPT !.phase[w] = "ready",
                              !.rolledBack = @ \cup {uow.tx[w]},
                              !.ret[w] = IF uow.outcome[w] = "err" THEN "fn_err"
                                         ELSE "panic"]
    /\ UNCHANGED <<reg, agg, last, now>>
    /\ UNCHANGED reconVars
    /\ UNCHANGED sessionVars

\* unit_of_work.go:61-66: tx.Commit(), then len(uow.events) > 0
Commit ==
    /\ \E w \in UowCallers, ok \in BOOLEAN :
        /\ uow.phase[w] = "commit"
        /\ uow' = IF ~ok
                  THEN [uow EXCEPT !.phase[w] = "ready", !.ret[w] = "commit_err"]
                  ELSE IF Len(uow.events) = 0
                  THEN [uow EXCEPT !.phase[w] = "ready", !.ret[w] = "nil",
                                   !.committed = @ \cup {uow.tx[w]}]
                  ELSE [uow EXCEPT !.phase[w] = "call_publish",
                                   !.committed = @ \cup {uow.tx[w]}]
    /\ UNCHANGED <<reg, agg, last, now>>
    /\ UNCHANGED reconVars
    /\ UNCHANGED sessionVars

\* unit_of_work.go:67: uow.events is read again and passed to Publish
PublishCalled ==
    /\ \E w \in UowCallers :
        /\ uow.phase[w] = "call_publish"
        /\ uow' = [uow EXCEPT !.phase[w] = "publish", !.passed[w] = uow.events]
    /\ UNCHANGED <<reg, agg, last, now>>
    /\ UNCHANGED reconVars
    /\ UNCHANGED sessionVars

\* unit_of_work.go:67-73: Publish ends.  On an error WithinTx returns it; on
\* a handler's panic the deferred function of 47-52 recovers, calls
\* tx.Rollback() on the committed transaction (which has no effect) and
\* panics again; otherwise uow.events is replaced by an empty slice.
Published ==
    /\ \E w \in UowCallers, panics \in BOOLEAN :
        /\ uow.phase[w] = "publish" /\ ~uow.load[w].held
        /\ \E failAt \in {0} \cup {i \in DOMAIN uow.passed[w] :
                                     uow.passed[w][i].name \in uow.handlers} :
            LET pub == Publish(uow.passed[w], uow.handlers, failAt, panics)
                told == [i \in 1..Len(pub.handed) |->
                            [event |-> pub.handed[i], by |-> uow.tx[w]]]
            IN  uow' = CASE pub.err = "handler" ->
                                [uow EXCEPT !.phase[w] = "ready", !.handed = @ \o told,
                                            !.ret[w] = "publish_err"]
                         [] pub.err = "panic" ->
                                [uow EXCEPT !.phase[w] = "ready", !.handed = @ \o told,
                                            !.ret[w] = "panic"]
                         [] OTHER ->
                                [uow EXCEPT !.phase[w] = "ready", !.handed = @ \o told,
                                            !.events = <<>>, !.ret[w] = "nil"]
    /\ UNCHANGED <<reg, agg, last, now>>
    /\ UNCHANGED reconVars
    /\ UNCHANGED sessionVars

NextUow ==
    \/ Register \/ BeginTx \/ CollectEvent \/ Appended \/ FnReturns
    \/ Rollback \/ Commit \/ PublishCalled \/ Published

SpecUow == InitUow /\ [][NextUow]_vars

\* C26 (as stated): the unit of work publishes collected events only after
\* the transaction committed; the events collected during a transaction that
\* rolled back are never published, neither by that WithinTx call nor by a
\* later one on the same unit of work.
C26_OnlyCommittedPublished ==
    \A i \in DOMAIN uow.handed :
        /\ uow.handed[i].by \in uow.committed
        /\ uow.handed[i].event.tx \notin uow.rolledBack

\* C29 (as stated): WithinTx returns an error only when the changes were not
\* committed; whenever the commit succeeded it returns nil.
C29_ErrorMeansNotCommitted ==
    \A w \in UowCallers :
        (uow.phase[w] = "ready" /\ uow.tx[w] \in uow.committed) => uow.ret[w] = "nil"

\* ------------------------------------------------------------ registration
\* RegisterUserUseCase.Execute in its two generations: the one of
\* internal/user/application/register_user.go over the
\* InMemoryUserRepository, and the one of
\* internal/user/application/usecase/register_user.go, whose user service
\* saves through the PostgresUserRepository.  Each caller makes one call;
\* calls interleave at the repository calls.
Registrants == {"1", "2", "3"}
Generations == {"application", "usecase"}
\* RegisterUserRequest: Email and Password
RegisterUserRequest(email, password) == [email |-> email, password |-> password]
Requests ==
    {RegisterUserRequest(e, "ValidPass123!") : e \in {RawEmailA, EmailA, EmailB, BadEmail, Empty}}
    \cup {RegisterUserRequest(EmailA, "")}

\* memory_repository.go:16 NewInMemoryUserRepository
NewInMemoryUserRepository == [users |-> {}, emails |-> {}]

\* memory_repository.go:24 Save: both maps are written, nothing is checked
MemorySave(store, u) ==
    [users |-> {x \in store.users : x.id # u.id} \cup {Row(u)},
     emails |-> {e \in store.emails : e.email # u.email}
                \cup {[email |-> u.email, id |-> u.id]}]

\* memory_repository.go:38 FindByEmail
MemoryFindByEmail(store, email) ==
    IF \E e \in store.emails : e.email = email /\ \E x \in store.users : x.id = e.id
    THEN "nil"
    ELSE "ErrUserNotFound"

InitRegister ==
    /\ Quiet
    /\ uow = NoUow
    /\ \E gen \in Generations :
        reg = [gen |-> gen, store |-> NewInMemoryUserRepository,
               pc |-> [c \in Registrants |-> "idle"],
               request |-> [c \in Registrants |-> RegisterUserRequest(Empty, "")],
               email |-> [c \in Registrants |-> Empty],
               ret |-> [c \in Registrants |-> "none"]]

\* register_user.go:35-40 and usecase/register_user.go:23-33: the request is
\* validated and the Email value object built
Execute(c) ==
    /\ reg.pc[c] = "idle"
    /\ \E req \in Requests :
        LET email == NewEmail(req.email)
            invalid == reg.gen = "usecase" /\ (req.email = Empty \/ req.password = "")
        IN  reg' = IF invalid
                   THEN [reg EXCEPT !.request[c] = req, !.pc[c] = "done",
                                    !.ret[c] = "ErrInvalidInput"]
                   ELSE IF ~email.ok
                   THEN [reg EXCEPT !.request[c] = req, !.pc[c] = "done",
                                    !.ret[c] = "invalid_email"]
                   ELSE [reg EXCEPT !.request[c] = req, !.email[c] = email.value,
                                    !.pc[c] = IF reg.gen = "application"
                                              THEN "find" ELSE "save"]
    /\ UNCHANGED <<uow, agg, last, now>>
    /\ UNCHANGED reconVars
    /\ UNCHANGED sessionVars

\* register_user.go:42-46: the lookup; a found user ends the call
ExecuteFind(c) ==
    /\ reg.pc[c] = "find"
    /\ reg' = IF MemoryFindByEmail(reg.store, reg.email[c]) = "nil"
              THEN [reg EXCEPT !.pc[c] = "done", !.ret[c] = "already_exists"]
              ELSE [reg EXCEPT !.pc[c] = "save"]
    /\ UNCHANGED <<uow, agg, last, now>>
    /\ UNCHANGED reconVars
    /\ UNCHANGED sessionVars

\* register_user.go:48-64 and usecase/register_user.go:35-50: NewUser, Save
\* and the response
ExecuteSave(c) ==
    /\ reg.pc[c] = "save"
    /\ reg' =
        IF reg.gen = "application"
        THEN LET user == NewUser(UUID(c), reg.email[c], reg.email[c], Empty, FALSE, now)
             IN  [reg EXCEPT !.store = MemorySave(@, user),
                             !.pc[c] = "done", !.ret[c] = "nil"]
        ELSE LET user == NewUser(UUID(c), Empty, reg.email[c], Empty, FALSE, now)
                 res == Save(reg.store.users, user, now, FALSE)
             IN  [reg EXCEPT !.store.users = res.rows,
                             !.pc[c] = "done", !.ret[c] = res.err]
    /\ UNCHANGED <<uow, agg, last, now>>
    /\ UNCHANGED reconVars
    /\ UNCHANGED sessionVars

NextRegister ==
    \E c \in Registrants : Execute(c) \/ ExecuteFind(c) \/ ExecuteSave(c)

SpecRegister == InitRegister /\ [][NextRegister]_vars

\* C27 (as stated): for every interleaving of concurrent Execute calls with
\* the same normalized email at most one call succeeds, and storage never
\* holds two users with that email.
C27_OneUserPerEmail ==
    /\ \A c, d \in Registrants :
        (/\ reg.ret[c] = "nil" /\ reg.ret[d] = "nil"
         /\ reg.email[c] = reg.email[d]) => c = d
    /\ \A x, y \in reg.store.users : x.email = y.email => x.id = y.id

====
